---- MODULE Spec2Model ----
(***************************************************************************)
(* Model of the DemartAI inventory dashboard: the InventoryPredictor       *)
(* (models/predictor.py), the analyze request handler (app.py) and the     *)
(* tables it writes (database.py).                                         *)
(*                                                                         *)
(* Python floats are IEEE-754 binary64.  The predictor multiplies integers *)
(* by decimal literals (0.2, 1.5, 1.4, ...) and truncates with int(), so   *)
(* the arithmetic is modelled bit for bit: a float is a record             *)
(* [mant, exp] whose value is mant * 2^exp, mant a natural number of at most *)
(* MantBits bits.                                                          *)
(***************************************************************************)
EXTENDS Integers, Sequences, FiniteSets, TLC

VARIABLES
    products_data,      \* InventoryPredictor.products_data  (loaded once)
    seasonal_patterns,  \* InventoryPredictor.seasonal_patterns (loaded once)
    call,               \* one application of a pure function of the predictor
    pc,                 \* per request thread: position in api_analyze
    data,               \* per request thread: the request's JSON body
    frame,              \* per call frame: the local variables of the handler
    response,           \* per request thread: the HTTP response sent
    inventory_analysis, \* table inventory_analysis, in insertion order
    user_activity,      \* table user_activity, in insertion order
    started,            \* number of requests received so far
    chatbot_conversations, \* table chatbot_conversations, in insertion order
    products,           \* table products, in insertion order
    session,            \* the Flask session of the client
    config              \* app.config, fixed when the process starts

vars == <<products_data, seasonal_patterns, call, pc, data, frame, response,
          inventory_analysis, user_activity, started,
          chatbot_conversations, products, session, config>>

(***************************************************************************)
(* Bounds of the model.                                                    *)
(***************************************************************************)
MaxStock == 185
MaxDemand == 104
MaxCallStock == 50
MaxRequests == 2
MaxStored == 2
MaxChats == 1
MaxSaves == 2
MaxVisits == 2

(***************************************************************************)
(* binary64 arithmetic                                                     *)
(***************************************************************************)
MantBits == 53
LimbBase == 2 ^ 15

Max(a, b) == IF a >= b THEN a ELSE b

\* A natural number of any size is a sequence of limbs, digits in base
\* LimbBase, most significant first.
RECURSIVE NatToLimbs(_)
NatToLimbs(n) ==
    IF n = 0 THEN <<>>
    ELSE Append(NatToLimbs(n \div LimbBase), n % LimbBase)

RECURSIVE LimbsToNat(_)
LimbsToNat(b) ==
    IF Len(b) = 0 THEN 0
    ELSE LimbBase * LimbsToNat(SubSeq(b, 1, Len(b) - 1)) + b[Len(b)]

RECURSIVE StripZeros(_)
StripZeros(b) == IF Len(b) = 0 \/ b[1] # 0 THEN b ELSE StripZeros(Tail(b))

\* b * n + carry, n a natural number below LimbBase
RECURSIVE MulLimbs(_, _, _)
MulLimbs(b, n, carry) ==
    IF Len(b) = 0 THEN NatToLimbs(carry)
    ELSE LET v == b[Len(b)] * n + carry
         IN  Append(MulLimbs(SubSeq(b, 1, Len(b) - 1), n, v \div LimbBase),
                    v % LimbBase)

\* long division by a d below LimbBase: the limbs still to divide, the
\* running remainder r and the quotient limbs q produced so far
RECURSIVE DivLimbs(_, _, _, _)
DivLimbs(b, d, r, q) ==
    IF Len(b) = 0 THEN [q |-> StripZeros(q), r |-> r]
    ELSE DivLimbs(Tail(b), d, (r * LimbBase + b[1]) % d,
                  Append(q, (r * LimbBase + b[1]) \div d))

RECURSIVE IncLimbs(_)
IncLimbs(b) ==
    IF Len(b) = 0 THEN <<1>>
    ELSE IF b[Len(b)] < LimbBase - 1 THEN [b EXCEPT ![Len(b)] = @ + 1]
    ELSE Append(IncLimbs(SubSeq(b, 1, Len(b) - 1)), 0)

RECURSIVE BitLength(_)
BitLength(n) == IF n = 0 THEN 0 ELSE 1 + BitLength(n \div 2)

BitLengthLimbs(b) ==
    IF Len(b) = 0 THEN 0 ELSE 15 * (Len(b) - 1) + BitLength(b[1])

\* round-to-nearest, ties-to-even, of b * 2^exp (plus a nonzero tail below
\* the last bit when sticky) to MantBits significant bits
RECURSIVE RoundLimbs(_, _, _)
RoundLimbs(b, exp, sticky) ==
    LET drop == BitLengthLimbs(b) - MantBits
    IN  IF drop <= 0 THEN [mant |-> b, exp |-> exp]
        ELSE IF drop > 14
        THEN RoundLimbs(DivLimbs(b, 2 ^ 14, 0, <<>>).q, exp + 14,
                        sticky \/ DivLimbs(b, 2 ^ 14, 0, <<>>).r # 0)
        ELSE LET d == DivLimbs(b, 2 ^ drop, 0, <<>>)
                 half == 2 ^ (drop - 1)
                 odd == d.q[Len(d.q)] % 2 = 1
                 up == d.r > half \/ (d.r = half /\ (sticky \/ odd))
             IN  [mant |-> IF up THEN IncLimbs(d.q) ELSE d.q,
                  exp |-> exp + drop]

\* the float a decimal literal with one fractional digit denotes: 14 is 1.4
\* (t * 2^60 / 10, correctly rounded)
FloatOfTenths(t) ==
    IF t = 0 THEN [mant |-> <<>>, exp |-> 0]
    ELSE LET d == DivLimbs(NatToLimbs(t) \o <<0, 0, 0, 0>>, 10, 0, <<>>)
         IN  RoundLimbs(d.q, -60, d.r # 0)

\* n * f for an int n >= 0 and a float f: float(n) is exact, the product is
\* rounded once
IntMulFloat(n, f) == RoundLimbs(StripZeros(MulLimbs(f.mant, n, 0)), f.exp, FALSE)

\* f.mant * 2^exp truncated to a whole number of limbs (exp <= 0)
RECURSIVE ShiftRight(_, _)
ShiftRight(b, k) ==
    IF k = 0 \/ Len(b) = 0 THEN b
    ELSE IF k > 14 THEN ShiftRight(DivLimbs(b, 2 ^ 14, 0, <<>>).q, k - 14)
    ELSE DivLimbs(b, 2 ^ k, 0, <<>>).q

\* int(f): truncation toward zero
FloatToInt(f) ==
    IF f.exp >= 0 THEN LimbsToNat(f.mant) * 2 ^ f.exp
    ELSE LimbsToNat(ShiftRight(f.mant, -f.exp))

\* i > f for an int i and a float f >= 0.  Python compares the exact values;
\* for an integer i that is i > floor(f).
IntGtFloat(i, f) == i > FloatToInt(f)

FLOAT_0_2 == FloatOfTenths(2)
FLOAT_1_5 == FloatOfTenths(15)

(***************************************************************************)
(* InventoryPredictor._generate_recommendation                             *)
(***************************************************************************)
safety_stock(predicted_demand) ==
    FloatToInt(IntMulFloat(predicted_demand, FLOAT_0_2))

\* the comparison with <= in place of <
BelowReorderPointInclusive(current_stock, reorder_point) ==
    current_stock <= reorder_point

BelowReorderPoint(current_stock, reorder_point) ==
    current_stock < reorder_point

\* the comparison with >= in place of >
AboveExcessInclusive(current_stock, optimal_stock) ==
    2 * current_stock >= 3 * optimal_stock

AboveExcess(current_stock, optimal_stock) ==
    IntGtFloat(current_stock, IntMulFloat(optimal_stock, FLOAT_1_5))

\* the gap without the max(0, ...) clamp
stock_gap_unclamped(required_stock, current_stock) ==
    required_stock - current_stock

stock_gap(required_stock, current_stock) ==
    Max(0, required_stock - current_stock)

\* the difference taken the wrong way round
AddQuantitySwapped(optimal_stock, current_stock) ==
    current_stock - optimal_stock

AddQuantity(optimal_stock, current_stock) == optimal_stock - current_stock

generate_recommendation(current_stock, predicted_demand, season) ==
    LET safety == safety_stock(predicted_demand)
        reorder_point == predicted_demand
        optimal_stock == predicted_demand + safety
        required_stock == optimal_stock
        gap == stock_gap(required_stock, current_stock)
        Rec(decision, advice, quantity_action) ==
            [decision |-> decision, advice |-> advice,
             quantity_action |-> quantity_action,
             optimal_level |-> optimal_stock,
             reorder_point |-> reorder_point,
             safety_stock |-> safety,
             required_stock |-> required_stock,
             stock_gap |-> gap]
    IN  IF BelowReorderPoint(current_stock, reorder_point)
        THEN LET q == AddQuantity(optimal_stock, current_stock)
             IN  Rec("ADD STOCK", "Add " \o ToString(q) \o " units", q)
        ELSE IF AboveExcess(current_stock, optimal_stock)
        THEN LET q == current_stock - optimal_stock
             IN  Rec("REDUCE STOCK", "Reduce by " \o ToString(q) \o " units", q)
        ELSE Rec("MAINTAIN",
                 "Maintain " \o ToString(current_stock) \o " units",
                 current_stock)

(***************************************************************************)
(* Python values: None, dict lookups                                       *)
(***************************************************************************)
None == [none |-> TRUE]

EmptyDict == <<>>

\* d.get(k, default)
DictGet(d, k, default) == IF k \in DOMAIN d THEN d[k] ELSE default

(***************************************************************************)
(* The pattern table and the catalog the predictor loads at construction.  *)
(* Multipliers are written in tenths, as their decimal literals: 14 is the *)
(* literal 1.4.                                                            *)
(***************************************************************************)
get_default_seasonal_patterns ==
    [Summer |-> ("Beverages" :> 15 @@ "Fruits" :> 14 @@ "Vegetables" :> 13
                 @@ "Groceries" :> 10 @@ "Personal Care" :> 12),
     Winter |-> ("Beverages" :> 8 @@ "Fruits" :> 9 @@ "Vegetables" :> 12
                 @@ "Groceries" :> 11 @@ "Personal Care" :> 10),
     Monsoon |-> ("Beverages" :> 12 @@ "Fruits" :> 11 @@ "Vegetables" :> 10
                  @@ "Groceries" :> 13 @@ "Personal Care" :> 14),
     Regular |-> ("Beverages" :> 10 @@ "Fruits" :> 10 @@ "Vegetables" :> 10
                  @@ "Groceries" :> 10 @@ "Personal Care" :> 10)]

\* a data/seasonal_patterns.json of the same shape, when the file exists
OverridePatterns ==
    [Summer |-> ("Dairy" :> 12 @@ "Beverages" :> 11 @@ "Toys" :> 0),
     Autumn |-> ("Groceries" :> 11 @@ "Personal Care" :> 15)]

\* _load_seasonal_patterns: the file's table, or the default when it is absent
LoadedPatterns == {get_default_seasonal_patterns, OverridePatterns}

\* a data/products.json; entries may lack every field but the name
SampleCatalog ==
    << [name |-> "Milk 1L", category |-> "Dairy", current_price |-> 60,
        unit |-> "pack"],
       [name |-> "Shampoo", category |-> "Personal Care",
        current_price |-> 120, unit |-> "bottle"],
       [name |-> "Rice"],
       [name |-> "Cola", category |-> "Beverages", current_price |-> 40,
        unit |-> "bottle"],
       [name |-> "Toy Car", category |-> "Toys", current_price |-> 250],
       [name |-> "Milk 1L", category |-> "Frozen", current_price |-> 75,
        unit |-> "litre"] >>

\* _load_products: the file's list, or [] when it is absent
LoadedCatalogs == {SampleCatalog, <<>>}

ProductNames ==
    {"Milk 1L", "Shampoo", "Rice", "Cola", "Toy Car", "Unknown Widget",
     "milk 1l"}

SeasonNames == {"Summer", "Winter", "Monsoon", "Regular", "summer", "Autumn"}

(***************************************************************************)
(* InventoryPredictor                                                      *)
(***************************************************************************)
category_demands ==
    "Groceries" :> 150 @@ "Dairy" :> 200 @@ "Beverages" :> 180
    @@ "Fruits" :> 120 @@ "Vegetables" :> 140 @@ "Personal Care" :> 90
    @@ "Snacks" :> 160 @@ "Frozen" :> 80 @@ "Condiments" :> 70
    @@ "Miscellaneous" :> 100

get_category_base_demand(category) == DictGet(category_demands, category, 100)

seasonal_factors == [Summer |-> 13, Winter |-> 9, Monsoon |-> 12, Regular |-> 10]

\* int(base * multiplier), the multiplier a float
scaled_demand(base, multiplier) ==
    FloatToInt(IntMulFloat(base, FloatOfTenths(multiplier)))

\* next((p for p in products_data if p['name'] == product_name), None):
\* the index of the first match, 0 for None, -1 when p['name'] raises KeyError
\* on an entry met before a match
\* next(...) without its default: no match raises instead of giving None
RECURSIVE FindProductNoDefault(_, _, _)
FindProductNoDefault(catalog, product_name, i) ==
    IF i > Len(catalog) THEN -1
    ELSE IF "name" \notin DOMAIN catalog[i] THEN -1
    ELSE IF catalog[i].name = product_name THEN i
    ELSE FindProductNoDefault(catalog, product_name, i + 1)

RECURSIVE FindProduct(_, _, _)
FindProduct(catalog, product_name, i) ==
    IF i > Len(catalog) THEN 0
    ELSE IF "name" \notin DOMAIN catalog[i] THEN -1
    ELSE IF catalog[i].name = product_name THEN i
    ELSE FindProduct(catalog, product_name, i + 1)

product_category(product) == DictGet(product, "category", "Groceries")

\* a miss on the category resolved to 0 instead of 1.0
seasonal_multiplier_zero_default(patterns, season, category) ==
    DictGet(DictGet(patterns, season, EmptyDict), category, 0)

seasonal_multiplier(patterns, season, category) ==
    DictGet(DictGet(patterns, season, EmptyDict), category, 10)

\* an unknown season resolved to the Summer factor instead of 1.0
default_factor_summer(season) == DictGet(seasonal_factors, season, 13)

default_factor(season) == DictGet(seasonal_factors, season, 10)

get_default_prediction(product_name, current_stock, season) ==
    LET factor == default_factor(season)
        predicted_demand == scaled_demand(100, factor)
    IN  [product |-> product_name,
         category |-> "Miscellaneous",
         current_stock |-> current_stock,
         season |-> season,
         predicted_demand |-> predicted_demand,
         seasonal_multiplier |-> factor,
         recommendation |->
             generate_recommendation(current_stock, predicted_demand, season),
         price |-> 0,
         unit |-> "pack"]

known_prediction(product, patterns, product_name, current_stock, season) ==
    LET category == product_category(product)
        multiplier == seasonal_multiplier(patterns, season, category)
        base_demand == get_category_base_demand(category)
        predicted_demand == scaled_demand(base_demand, multiplier)
    IN  [product |-> product_name,
         category |-> category,
         current_stock |-> current_stock,
         season |-> season,
         predicted_demand |-> predicted_demand,
         seasonal_multiplier |-> multiplier,
         recommendation |->
             generate_recommendation(current_stock, predicted_demand, season),
         price |-> DictGet(product, "current_price", 0),
         unit |-> DictGet(product, "unit", "pack")]

predict_stock_requirement(catalog, patterns, product_name, current_stock, season) ==
    LET i == FindProduct(catalog, product_name, 1)
    IN  IF i < 0 THEN [raised |-> "KeyError"]
        ELSE IF i = 0
        THEN get_default_prediction(product_name, current_stock, season)
        ELSE known_prediction(catalog[i], patterns, product_name,
                              current_stock, season)

(***************************************************************************)
(* The products table (database.py) and the catalog served to users        *)
(* (app.py load_products).  The JSON file data/products.json is the one    *)
(* InventoryPredictor._load_products read when the process started, so its *)
(* content is products_data ([] when the file is missing).                 *)
(***************************************************************************)
\* the outcome of one call into database.py: the statement commits, the
\* statement fails (caught inside the function), or get_db_connection raises
\* (before the function's try block)
DbOutcomes == {"ok", "execute_fails", "connect_fails"}

\* the names of the model in the order of SQLite's BINARY collation
NameOrder ==
    <<"Cola", "Ghee 1L", "Milk 1L", "Rice", "Shampoo", "Toy Car",
      "Unknown Widget", "milk 1l">>

NameRank(name) == CHOOSE i \in 1..Len(NameOrder) : NameOrder[i] = name

\* save_product: the values bound to the INSERT, one .get per column; the
\* product objects of the model carry no metadata, so json.dumps gives "{}"
ProductRow(product_obj) ==
    [name |-> DictGet(product_obj, "name", None),
     category |-> DictGet(product_obj, "category", None),
     current_price |-> DictGet(product_obj, "current_price", None),
     unit |-> DictGet(product_obj, "unit", None),
     historical_price_avg |-> DictGet(product_obj, "historical_price_avg", None),
     metadata |-> "{}"]

\* INSERT of a row whose name is already stored: a second row
UpsertAlwaysInsert(table, row) == Append(table, row)

\* INSERT ... ON CONFLICT(name) DO UPDATE SET ...: the row of that name is
\* overwritten in place, a new name is appended
Upsert(table, row) ==
    IF \E i \in 1..Len(table) : table[i].name = row.name
    THEN [i \in 1..Len(table) |->
             IF table[i].name = row.name THEN row ELSE table[i]]
    ELSE Append(table, row)

\* save_product(product_obj) on the table: the table afterwards and the value
\* returned; name is NOT NULL, so a product without a name fails the INSERT
save_product(table, product_obj, outcome) ==
    LET row == ProductRow(product_obj)
    IN  IF outcome = "connect_fails"
        THEN [table |-> table, raised |-> "OperationalError"]
        ELSE IF outcome = "execute_fails" \/ "name" \notin DOMAIN product_obj
        THEN [table |-> table, returned |-> FALSE]
        ELSE [table |-> Upsert(table, row), returned |-> TRUE]

\* seed_products_from_json: the loop over the JSON entries from entry i on;
\* outcomes[i] is the outcome of the save_product call for entry i, and an
\* exception of that call is caught and printed
RECURSIVE SeedLoop(_, _, _, _)
SeedLoop(table, json, outcomes, i) ==
    IF i > Len(json) THEN table
    ELSE SeedLoop(save_product(table, json[i], outcomes[i]).table,
                  json, outcomes, i + 1)

\* seed_products_from_json: nothing when the COUNT query fails (the exception
\* is caught by init_db) or the table holds a row
seed_products_from_json(table, json, count_outcome, outcomes) ==
    IF count_outcome # "ok" THEN table
    ELSE IF Len(table) > 0 THEN table
    ELSE SeedLoop(table, json, outcomes, 1)

\* SELECT ... FROM products ORDER BY name, each row as a dict
SelectProductsByName(table) ==
    [i \in 1..Len(table) |->
        LET r == CHOOSE r \in {table[k] : k \in 1..Len(table)} :
                    Cardinality({k \in 1..Len(table) :
                        NameRank(table[k].name) < NameRank(r.name)}) = i - 1
        IN  [name |-> r.name, category |-> r.category,
             current_price |-> r.current_price, unit |-> r.unit,
             historical_price_avg |-> r.historical_price_avg,
             metadata |-> EmptyDict]]

\* get_all_products: [] when the query fails
get_all_products(table, outcome) ==
    IF outcome = "connect_fails" THEN [raised |-> "OperationalError"]
    ELSE IF outcome = "execute_fails" THEN [returned |-> <<>>]
    ELSE [returned |-> SelectProductsByName(table)]

\* app.py load_products: the stored products when there are any, else the
\* JSON file
load_products(table, json, outcome) ==
    LET stored == get_all_products(table, outcome)
    IN  IF "returned" \in DOMAIN stored /\ Len(stored.returned) > 0
        THEN stored.returned
        ELSE json

\* the product objects passed to save_product
SaveInputs ==
    {[name |-> "Ghee 1L", category |-> "Dairy", current_price |-> 550,
      unit |-> "jar"],
     [name |-> "Milk 1L", category |-> "Dairy", current_price |-> 65,
      unit |-> "pack"],
     [name |-> "Cola", category |-> "Beverages", current_price |-> 40,
      unit |-> "bottle"],
     [name |-> "Rice"],
     [category |-> "Dairy", current_price |-> 10]}

\* the products table after init_db seeded it from the JSON file
SeededTable(json) ==
    seed_products_from_json(<<>>, json, "ok", [i \in 1..Len(json) |-> "ok"])

\* app.config: the development configuration carries no API key
DefaultConfig == [GOOGLE_API_KEY |-> <<>>]

(***************************************************************************)
(* SpecCore: one application of a pure function of the predictor to inputs *)
(* drawn from bounded sets.                                                *)
(***************************************************************************)
\* the request threads that may run the handler at the same time
Threads == {1, 2}

NoCall == [fn |-> "none"]

RecommendCalls ==
    [fn : {"recommend"}, current_stock : 0..MaxStock,
     predicted_demand : 0..MaxDemand, season : {"Summer", "Autumn"},
     result : {None}, done : {FALSE}]

PredictCalls ==
    [fn : {"predict"}, product_name : ProductNames,
     current_stock : 0..MaxCallStock, season : SeasonNames,
     result : {None}, done : {FALSE}]

IdleHandlers ==
    /\ pc = [t \in Threads |-> "idle"]
    /\ data = [t \in Threads |-> EmptyDict]
    /\ frame = [t \in Threads |-> None]
    /\ response = [t \in Threads |-> None]
    /\ inventory_analysis = <<>>
    /\ user_activity = <<>>
    /\ started = 0

\* the tables and the session no request of the specification touches
IdleStore ==
    /\ chatbot_conversations = <<>>
    /\ products = SeededTable(products_data)
    /\ session = EmptyDict
    /\ config = DefaultConfig

InitCore ==
    /\ \/ /\ call \in RecommendCalls
          /\ products_data = <<>>
          /\ seasonal_patterns = get_default_seasonal_patterns
       \/ /\ call \in PredictCalls
          /\ products_data \in LoadedCatalogs
          /\ seasonal_patterns \in LoadedPatterns
    /\ IdleHandlers
    /\ IdleStore

ApplyRecommend ==
    /\ call.fn = "recommend"
    /\ ~call.done
    /\ call' = [call EXCEPT
                  !.result = generate_recommendation(call.current_stock,
                                 call.predicted_demand, call.season),
                  !.done = TRUE]
    /\ UNCHANGED <<chatbot_conversations, products, session, config>>
    /\ UNCHANGED <<products_data, seasonal_patterns, pc, data, frame,
                   response, inventory_analysis, user_activity, started>>

ApplyPredict ==
    /\ call.fn = "predict"
    /\ ~call.done
    /\ call' = [call EXCEPT
                  !.result = predict_stock_requirement(products_data,
                                 seasonal_patterns, call.product_name,
                                 call.current_stock, call.season),
                  !.done = TRUE]
    /\ UNCHANGED <<chatbot_conversations, products, session, config>>
    /\ UNCHANGED <<products_data, seasonal_patterns, pc, data, frame,
                   response, inventory_analysis, user_activity, started>>

NextCore == ApplyRecommend \/ ApplyPredict

SpecCore == InitCore /\ [][NextCore]_vars

(***************************************************************************)
(* JSON values of a request body, and int() applied to them                *)
(***************************************************************************)
JsonInt(n) == [type |-> "int", value |-> n]
JsonFloat(whole, tenths) == [type |-> "float", whole |-> whole, tenths |-> tenths]
JsonStr(chars) == [type |-> "str", chars |-> chars]
JsonNull == [type |-> "null"]

DigitValue ==
    "0" :> 0 @@ "1" :> 1 @@ "2" :> 2 @@ "3" :> 3 @@ "4" :> 4 @@ "5" :> 5
    @@ "6" :> 6 @@ "7" :> 7 @@ "8" :> 8 @@ "9" :> 9

\* the characters str.strip() and int() drop at both ends
Whitespace == {" ", "\t", "\n"}

RECURSIVE StripLeft(_)
StripLeft(chars) ==
    IF Len(chars) > 0 /\ chars[1] \in Whitespace
    THEN StripLeft(Tail(chars))
    ELSE chars

RECURSIVE StripRight(_)
StripRight(chars) ==
    IF Len(chars) > 0 /\ chars[Len(chars)] \in Whitespace
    THEN StripRight(SubSeq(chars, 1, Len(chars) - 1))
    ELSE chars

RECURSIVE DigitsValue(_, _)
DigitsValue(chars, acc) ==
    IF Len(chars) = 0 THEN acc
    ELSE DigitsValue(Tail(chars), 10 * acc + DigitValue[chars[1]])

\* int(s) for a str: blanks stripped, an optional sign, then decimal digits
ParseInt(chars) ==
    LET body == StripRight(StripLeft(chars))
        signed == Len(body) > 0 /\ body[1] \in {"+", "-"}
        digits == IF signed THEN Tail(body) ELSE body
    IN  IF Len(digits) = 0 \/ \E i \in 1..Len(digits) : digits[i] \notin DOMAIN DigitValue
        THEN [ok |-> FALSE, error |-> "ValueError"]
        ELSE [ok |-> TRUE,
              value |-> IF signed /\ body[1] = "-"
                        THEN -DigitsValue(digits, 0)
                        ELSE DigitsValue(digits, 0)]

\* int(v): an int is itself, a float is truncated toward zero, a str is
\* parsed (ValueError when it is no integer literal), None is a TypeError
PyInt(v) ==
    CASE v.type = "int" -> [ok |-> TRUE, value |-> v.value]
      [] v.type = "float" -> [ok |-> TRUE, value |-> v.whole]
      [] v.type = "str" -> ParseInt(v.chars)
      [] OTHER -> [ok |-> FALSE, error |-> "TypeError"]

(***************************************************************************)
(* The analyze request handler (app.py api_analyze), one thread per        *)
(* request, and the tables it writes.                                      *)
(***************************************************************************)
StockValues ==
    {JsonInt(50), JsonInt(-5), JsonFloat(3, 7), JsonStr(<<" ", "1", "2">>),
     JsonStr(<<"a", "b", "c">>), JsonNull}

RequestProducts == {"Milk 1L", "Unknown Widget"}

RequestSeasons == {"Winter"}

\* the JSON bodies posted to /api/analyze: complete ones, and ones that lack
\* a required field
AnalyzeBodies ==
    {b \in [product : RequestProducts, season : RequestSeasons,
            stock : StockValues] :
        b.product = "Milk 1L" \/ b.stock = JsonInt(50)}
    \cup {[product |-> "Milk 1L", season |-> "Winter"],
          [season |-> "Winter", stock |-> JsonInt(50)],
          EmptyDict}

RequiredFields == {"product", "season", "stock"}

\* app.py 211: the answer to a stock int() does not accept
InvalidStockResponse ==
    [status |-> 400, body |-> [error |-> "Invalid stock value"]]

\* a body that lacks a field answered like one with a bad stock
MissingFieldsAsInvalidStock == InvalidStockResponse

\* app.py 206: the answer to a body that lacks a required field
MissingFieldsResponse ==
    [status |-> 400, body |-> [error |-> "Missing required fields"]]

EmptyFrame ==
    [stock |-> None, product |-> None, category |-> None,
     seasonal_multiplier |-> None, prediction |-> None]

\* the frame holding the local variables of the call thread t runs: every
\* call has its own
FrameShared(t) == 1

FrameOf(t) == t

InitAnalyze ==
    /\ products_data = SampleCatalog
    /\ seasonal_patterns = get_default_seasonal_patterns
    /\ call = NoCall
    /\ pc = [t \in Threads |-> "idle"]
    /\ data = [t \in Threads |-> EmptyDict]
    /\ frame = [t \in Threads |-> EmptyFrame]
    /\ response = [t \in Threads |-> None]
    /\ inventory_analysis = <<>>
    /\ user_activity = <<>>
    /\ started = 0
    /\ IdleStore

\* a request arrives and a thread starts api_analyze on its body
Receive(t, body) ==
    /\ pc[t] \in {"idle", "done"}
    /\ started < MaxRequests
    /\ started' = started + 1
    /\ data' = [data EXCEPT ![t] = body]
    /\ frame' = [frame EXCEPT ![FrameOf(t)] = EmptyFrame]
    /\ response' = [response EXCEPT ![t] = None]
    /\ pc' = [pc EXCEPT ![t] = "validate"]
    /\ UNCHANGED <<chatbot_conversations, products, session, config>>
    /\ UNCHANGED <<products_data, seasonal_patterns, call,
                   inventory_analysis, user_activity>>

\* app.py 204-211: the required fields, then stock = int(data['stock'])
Validate(t) ==
    /\ pc[t] = "validate"
    /\ IF ~(RequiredFields \subseteq DOMAIN data[t])
       THEN /\ response' = [response EXCEPT ![t] = MissingFieldsResponse]
            /\ pc' = [pc EXCEPT ![t] = "done"]
            /\ frame' = frame
       ELSE IF ~PyInt(data[t].stock).ok
       THEN /\ response' = [response EXCEPT ![t] = InvalidStockResponse]
            /\ pc' = [pc EXCEPT ![t] = "done"]
            /\ frame' = frame
       ELSE /\ frame' = [frame EXCEPT ![FrameOf(t)].stock = PyInt(data[t].stock).value]
            /\ pc' = [pc EXCEPT ![t] = "find"]
            /\ response' = response
    /\ UNCHANGED <<chatbot_conversations, products, session, config>>
    /\ UNCHANGED <<products_data, seasonal_patterns, call, data,
                   inventory_analysis, user_activity, started>>

\* predictor.py 77-79: the catalog lookup; no match takes the default path
Find(t) ==
    /\ pc[t] = "find"
    /\ LET f == frame[FrameOf(t)]
           i == FindProduct(products_data, data[t].product, 1)
       IN  IF i < 0
           THEN /\ response' = [response EXCEPT ![t] =
                       [status |-> 500, body |-> [error |-> "Internal server error"]]]
                /\ pc' = [pc EXCEPT ![t] = "done"]
                /\ frame' = frame
           ELSE IF i = 0
           THEN /\ frame' = [frame EXCEPT ![FrameOf(t)].prediction =
                       get_default_prediction(data[t].product, f.stock,
                                              data[t].season)]
                /\ pc' = [pc EXCEPT ![t] = "save"]
                /\ response' = response
           ELSE /\ frame' = [frame EXCEPT ![FrameOf(t)].product = products_data[i]]
                /\ pc' = [pc EXCEPT ![t] = "multiplier"]
                /\ response' = response
    /\ UNCHANGED <<chatbot_conversations, products, session, config>>
    /\ UNCHANGED <<products_data, seasonal_patterns, call, data,
                   inventory_analysis, user_activity, started>>

\* predictor.py 82-85: the category and its seasonal multiplier
Multiplier(t) ==
    /\ pc[t] = "multiplier"
    /\ LET f == frame[FrameOf(t)]
           category == product_category(f.product)
       IN  frame' = [frame EXCEPT
                       ![FrameOf(t)].category = category,
                       ![FrameOf(t)].seasonal_multiplier =
                           seasonal_multiplier(seasonal_patterns,
                                               data[t].season, category)]
    /\ pc' = [pc EXCEPT ![t] = "compute"]
    /\ UNCHANGED <<chatbot_conversations, products, session, config>>
    /\ UNCHANGED <<products_data, seasonal_patterns, call, data, response,
                   inventory_analysis, user_activity, started>>

\* predictor.py 88-104: the demand, the recommendation and the result
Compute(t) ==
    /\ pc[t] = "compute"
    /\ LET f == frame[FrameOf(t)]
           predicted_demand ==
               scaled_demand(get_category_base_demand(f.category),
                             f.seasonal_multiplier)
       IN  frame' = [frame EXCEPT ![FrameOf(t)].prediction =
                 [product |-> data[t].product,
                  category |-> f.category,
                  current_stock |-> f.stock,
                  season |-> data[t].season,
                  predicted_demand |-> predicted_demand,
                  seasonal_multiplier |-> f.seasonal_multiplier,
                  recommendation |->
                      generate_recommendation(f.stock, predicted_demand,
                                              data[t].season),
                  price |-> DictGet(f.product, "current_price", 0),
                  unit |-> DictGet(f.product, "unit", "pack")]]
    /\ pc' = [pc EXCEPT ![t] = "save"]
    /\ UNCHANGED <<chatbot_conversations, products, session, config>>
    /\ UNCHANGED <<products_data, seasonal_patterns, call, data, response,
                   inventory_analysis, user_activity, started>>

\* datetime.now() as save_analysis reads it: the wall clock is not monotone,
\* so a later reading may equal or precede an earlier one
ClockReadings == {1, 2}

\* database.py save_analysis: the row inserted for a prediction; updated_at
\* is never read and is left out
AnalysisRow(id, product_name, category, season, current_stock, prediction_result, now) ==
    [id |-> id,
     product_name |-> product_name,
     category |-> category,
     season |-> season,
     current_stock |-> current_stock,
     predicted_demand |-> DictGet(prediction_result, "predicted_demand", None),
     recommendation |->
         DictGet(DictGet(prediction_result, "recommendation", EmptyDict),
                 "advice", ""),
     decision |->
         DictGet(DictGet(prediction_result, "recommendation", EmptyDict),
                 "decision", ""),
     price |-> DictGet(prediction_result, "price", None),
     unit |-> DictGet(prediction_result, "unit", None),
     optimal_level |->
         DictGet(DictGet(prediction_result, "recommendation", EmptyDict),
                 "optimal_level", None),
     created_at |-> now]

\* app.py 221-230: save_analysis inside try/except; a failure is printed and
\* the handler goes on
SaveAnalysis(t, outcome, now) ==
    /\ pc[t] = "save"
    /\ LET f == frame[FrameOf(t)]
       IN  inventory_analysis' =
               IF outcome = "ok"
               THEN Append(inventory_analysis,
                           AnalysisRow(Len(inventory_analysis) + 1,
                                       data[t].product,
                                       DictGet(f.prediction, "category", None),
                                       data[t].season, f.stock, f.prediction,
                                       now))
               ELSE inventory_analysis
    /\ pc' = [pc EXCEPT ![t] = "log"]
    /\ UNCHANGED <<chatbot_conversations, products, session, config>>
    /\ UNCHANGED <<products_data, seasonal_patterns, call, data, frame,
                   response, user_activity, started>>

\* json.dumps({'stock': stock, 'decision': decision})
ActivityDetails(stock, decision) ==
    "{\"stock\": " \o ToString(stock) \o ", \"decision\": \"" \o decision \o "\"}"

\* app.py 233-239: log_activity, outside any try, then the response
LogActivity(t, outcome) ==
    /\ pc[t] = "log"
    /\ LET f == frame[FrameOf(t)]
       IN  /\ user_activity' =
                  IF outcome = "ok"
                  THEN Append(user_activity,
                         [id |-> Len(user_activity) + 1,
                          activity_type |-> "inventory_analysis",
                          description |-> "Analyzed " \o data[t].product
                              \o " for " \o data[t].season \o " season",
                          details |-> ActivityDetails(f.stock,
                              f.prediction.recommendation.decision)])
                  ELSE user_activity
           /\ response' = [response EXCEPT ![t] =
                  IF outcome = "connect_fails"
                  THEN [status |-> 500, body |-> [error |-> "Internal server error"]]
                  ELSE [status |-> 200, body |-> f.prediction]]
    /\ pc' = [pc EXCEPT ![t] = "done"]
    /\ UNCHANGED <<chatbot_conversations, products, session, config>>
    /\ UNCHANGED <<products_data, seasonal_patterns, call, data, frame,
                   inventory_analysis, started>>

Next ==
    \E t \in Threads :
        \/ \E body \in AnalyzeBodies : Receive(t, body)
        \/ Validate(t)
        \/ Find(t)
        \/ Multiplier(t)
        \/ Compute(t)
        \/ \E outcome \in DbOutcomes, now \in ClockReadings :
               SaveAnalysis(t, outcome, now)
        \/ \E outcome \in DbOutcomes : LogActivity(t, outcome)

Spec == InitAnalyze /\ [][Next]_vars

(***************************************************************************)
(* The analytics aggregator (database.py get_analytics_data) and the       *)
(* dashboard statistics handler (app.py api_dashboard_stats)               *)
(***************************************************************************)
\* v is Python's None
IsNone(v) == ToString(v) = ToString(None)

Min(a, b) == IF a <= b THEN a ELSE b

\* a query without its LIMIT clause
LimitAll(rows, n) == rows

\* LIMIT n
Limit(rows, n) == SubSeq(rows, 1, Min(n, Len(rows)))

\* the values of a column
ColumnValues(table, column) == {table[i][column] : i \in 1..Len(table)}

\* COUNT(*) of the rows holding key in the column
CountWhere(table, column, key) ==
    Cardinality({i \in 1..Len(table) : table[i][column] = key})

\* every group counted as one row
GroupCountOnes(table, column) == [key \in ColumnValues(table, column) |-> 1]

\* dict(cursor.fetchall()) of SELECT column, COUNT(*) ... GROUP BY column
GroupCount(table, column) ==
    [key \in ColumnValues(table, column) |-> CountWhere(table, column, key)]

\* SQL leaves the order of rows with equal sort keys open: they come out in
\* the order of their first row, or in the reverse of it
TieOrders == {"first", "last"}

\* the rows of a set in the order Before gives them, rank[r] being the
\* number of rows ahead of r
SortedRows(rows, rank) ==
    [i \in 1..Cardinality(rows) |-> CHOOSE r \in rows : rank[r] = i - 1]

\* SELECT product_name, COUNT(*) as count ... GROUP BY product_name
ProductGroups(table) ==
    {[product_name |-> name,
      count |-> CountWhere(table, "product_name", name),
      first |-> CHOOSE i \in 1..Len(table) :
                   /\ table[i].product_name = name
                   /\ \A j \in 1..(i - 1) : table[j].product_name # name]
     : name \in ColumnValues(table, "product_name")}

\* ORDER BY count DESC
CountDesc(a, b, tie) ==
    \/ a.count > b.count
    \/ /\ a.count = b.count
       /\ IF tie = "first" THEN a.first < b.first ELSE a.first > b.first

\* database.py 313-320
top_products(table, tie) ==
    LET groups == ProductGroups(table)
        rank == [g \in groups |->
                    Cardinality({h \in groups : CountDesc(h, g, tie)})]
        sorted == SortedRows(groups, rank)
    IN  Limit([i \in 1..Len(sorted) |->
                  [product_name |-> sorted[i].product_name,
                   count |-> sorted[i].count]],
              10)

\* ORDER BY created_at DESC
CreatedDesc(a, b, tie) ==
    \/ a.created_at > b.created_at
    \/ /\ a.created_at = b.created_at
       /\ IF tie = "first" THEN a.id < b.id ELSE a.id > b.id

\* database.py 323-328
recent_analyses(table, tie) ==
    LET rows == {table[i] : i \in 1..Len(table)}
        rank == [r \in rows |->
                    Cardinality({q \in rows : CreatedDesc(q, r, tie)})]
    IN  Limit(SortedRows(rows, rank), 20)

\* get_analytics_data on the two tables: the summary, {} when a query fails,
\* and the exception of get_db_connection, which is called before the try
get_analytics_data(analyses, chats, outcome, tie) ==
    IF outcome = "connect_fails" THEN [raised |-> "OperationalError"]
    ELSE IF outcome = "execute_fails" THEN [returned |-> EmptyDict]
    ELSE [returned |->
            [total_analyses |-> Len(analyses),
             categories |-> GroupCount(analyses, "category"),
             seasons |-> GroupCount(analyses, "season"),
             decisions |-> GroupCount(analyses, "decision"),
             top_products |-> top_products(analyses, tie),
             recent_analyses |-> recent_analyses(analyses, tie),
             total_chats |-> Len(chats),
             chat_sources |-> GroupCount(chats, "source")]]

\* the answer Flask gives when a handler raises (app.py 392-394)
InternalError == [status |-> 500, body |-> [error |-> "Internal server error"]]

\* product.get('category', 'Miscellaneous') as jsonify writes the key
CategoryKey(product) ==
    IF "category" \notin DOMAIN product THEN "Miscellaneous"
    ELSE IF IsNone(product.category) THEN "null"
    ELSE product.category

\* total_price += product.get('current_price', 0) over the products from i on
RECURSIVE SumPrices(_, _)
SumPrices(listed, i) ==
    IF i > Len(listed) THEN 0
    ELSE DictGet(listed[i], "current_price", 0) + SumPrices(listed, i + 1)

\* api_dashboard_stats: the loop over load_products() adds None to an int
\* when a stored product has no price (TypeError); the average is kept as the
\* sum and the count it is rounded from
api_dashboard_stats(table, json, analyses, chats, products_outcome, analytics_outcome, tie) ==
    LET listed == load_products(table, json, products_outcome)
        keys == {CategoryKey(listed[i]) : i \in 1..Len(listed)}
        analytics_data == get_analytics_data(analyses, chats,
                                             analytics_outcome, tie)
    IN  IF \E i \in 1..Len(listed) :
               /\ "current_price" \in DOMAIN listed[i]
               /\ IsNone(listed[i].current_price)
        THEN InternalError
        ELSE IF "raised" \in DOMAIN analytics_data
        THEN InternalError
        ELSE [status |-> 200,
              body |->
                [total_products |-> Len(listed),
                 total_analyses |->
                     DictGet(analytics_data.returned, "total_analyses", 0),
                 total_chats |->
                     DictGet(analytics_data.returned, "total_chats", 0),
                 categories |-> keys,
                 avg_price |-> [sum |-> SumPrices(listed, 1),
                                count |-> Len(listed)],
                 low_stock_items |-> 0,
                 high_demand_items |-> 0,
                 category_distribution |->
                     [key \in keys |->
                         Cardinality({i \in 1..Len(listed) :
                                         CategoryKey(listed[i]) = key})]]]

\* database.py save_chat: the row inserted; created_at is never read and is
\* left out
ChatRow(id, user_message, bot_response, source) ==
    [id |-> id, user_message |-> user_message,
     bot_response |-> bot_response, source |-> source]

\* the row api_analyze stores for a request: the prediction and its fields
StoredAnalysis(id, product_name, stock, season, now) ==
    LET prediction == predict_stock_requirement(SampleCatalog,
                          get_default_seasonal_patterns, product_name, stock,
                          season)
    IN  AnalysisRow(id, product_name, DictGet(prediction, "category", None),
                    season, stock, prediction, now)

\* stored histories the summary is taken of: n analyses of the products
\* HistoryNames[((i * k) % m) + 1], their clock readings following a pattern
HistoryNames ==
    <<"Milk 1L", "Shampoo", "Rice", "Cola", "Toy Car", "Item 6", "Item 7",
      "Item 8", "Item 9", "Item 10", "Item 11", "Item 12">>

SampleSeasons == <<"Summer", "Winter", "Monsoon", "Regular">>

ClockPatterns == {"ticks", "ties", "steps_back"}

ClockAt(pattern, i) ==
    CASE pattern = "ticks" -> i
      [] pattern = "ties" -> (i + 1) \div 2
      [] OTHER -> (i * 7) % 5

SampleHistory(n, k, m, pattern) ==
    [i \in 1..n |->
        StoredAnalysis(i, HistoryNames[((i * k) % m) + 1], (i * 37) % 200,
                       SampleSeasons[(i % 4) + 1], ClockAt(pattern, i))]

HistoryShapes ==
    {[n |-> 0, k |-> 1, m |-> 3, pattern |-> "ticks"],
     [n |-> 2, k |-> 1, m |-> 3, pattern |-> "ties"],
     [n |-> 11, k |-> 5, m |-> 12, pattern |-> "steps_back"],
     [n |-> 21, k |-> 1, m |-> 3, pattern |-> "ties"],
     [n |-> 21, k |-> 1, m |-> 12, pattern |-> "steps_back"],
     [n |-> 21, k |-> 5, m |-> 12, pattern |-> "ticks"]}

SampleHistories ==
    {SampleHistory(shape.n, shape.k, shape.m, shape.pattern) :
        shape \in HistoryShapes}

ChatSources == {"google-gemini", "fallback"}

SampleChats ==
    {<<>>,
     <<ChatRow(1, <<"h", "i">>, "Hi there!", "fallback"),
       ChatRow(2, <<"h", "i">>, "Hello", "google-gemini"),
       ChatRow(3, <<"o", "k">>, "Hi there!", "fallback"),
       ChatRow(4, <<"o", "k">>, "I apologize", "error")>>}

InitAnalytics ==
    /\ products_data = SampleCatalog
    /\ seasonal_patterns = get_default_seasonal_patterns
    /\ call = NoCall
    /\ pc = [t \in Threads |-> "idle"]
    /\ data = [t \in Threads |-> EmptyDict]
    /\ frame = [t \in Threads |-> EmptyFrame]
    /\ response = [t \in Threads |-> None]
    /\ inventory_analysis \in SampleHistories
    /\ chatbot_conversations \in SampleChats
    /\ user_activity = <<>>
    /\ started = 0
    /\ products = SeededTable(products_data)
    /\ session = EmptyDict
    /\ config = DefaultConfig

\* save_analysis called as api_analyze calls it
StoreAnalysis(product_name, stock, season, outcome, now) ==
    /\ started < MaxStored
    /\ started' = started + 1
    /\ inventory_analysis' =
           IF outcome = "ok"
           THEN Append(inventory_analysis,
                       StoredAnalysis(Len(inventory_analysis) + 1,
                                      product_name, stock, season, now))
           ELSE inventory_analysis
    /\ call' = NoCall
    /\ UNCHANGED <<products_data, seasonal_patterns, pc, data, frame,
                   response, user_activity, chatbot_conversations, products,
                   session, config>>

\* save_chat called as api_chat calls it
StoreChat(user_message, bot_response, source, outcome) ==
    /\ started < MaxStored
    /\ started' = started + 1
    /\ chatbot_conversations' =
           IF outcome = "ok"
           THEN Append(chatbot_conversations,
                       ChatRow(Len(chatbot_conversations) + 1, user_message,
                               bot_response, source))
           ELSE chatbot_conversations
    /\ call' = NoCall
    /\ UNCHANGED <<products_data, seasonal_patterns, pc, data, frame,
                   response, user_activity, inventory_analysis, products,
                   session, config>>

\* get_analytics_data()
GetAnalyticsData(outcome, tie) ==
    /\ call' = [fn |-> "get_analytics_data", outcome |-> outcome,
                result |-> get_analytics_data(inventory_analysis,
                               chatbot_conversations, outcome, tie)]
    /\ UNCHANGED <<products_data, seasonal_patterns, pc, data, frame,
                   response, inventory_analysis, user_activity, started,
                   chatbot_conversations, products, session, config>>

\* GET /api/dashboard-stats
DashboardStats(products_outcome, analytics_outcome, tie) ==
    /\ call' = [fn |-> "api_dashboard_stats",
                products_outcome |-> products_outcome,
                outcome |-> analytics_outcome,
                response |-> api_dashboard_stats(products, products_data,
                                 inventory_analysis, chatbot_conversations,
                                 products_outcome, analytics_outcome, tie)]
    /\ UNCHANGED <<products_data, seasonal_patterns, pc, data, frame,
                   response, inventory_analysis, user_activity, started,
                   chatbot_conversations, products, session, config>>

NextAnalytics ==
    \/ \E outcome \in DbOutcomes, now \in ClockReadings :
           StoreAnalysis("Item 12", 50, "Winter", outcome, now)
    \/ \E source \in ChatSources, outcome \in DbOutcomes :
           StoreChat(<<"h", "i">>, "Hi there!", source, outcome)
    \/ \E outcome \in DbOutcomes, tie \in TieOrders :
           GetAnalyticsData(outcome, tie)
    \/ \E products_outcome \in DbOutcomes, analytics_outcome \in DbOutcomes,
          tie \in TieOrders :
           DashboardStats(products_outcome, analytics_outcome, tie)

SpecAnalytics == InitAnalytics /\ [][NextAnalytics]_vars

(***************************************************************************)
(* The chat handler (app.py api_chat) and its keyword fallback             *)
(* (get_fallback_response).  A str the code searches or strips is the      *)
(* sequence of its characters.                                             *)
(***************************************************************************)
LowerCase ==
    "A" :> "a" @@ "B" :> "b" @@ "C" :> "c" @@ "D" :> "d" @@ "E" :> "e"
    @@ "F" :> "f" @@ "G" :> "g" @@ "H" :> "h" @@ "I" :> "i" @@ "J" :> "j"
    @@ "K" :> "k" @@ "L" :> "l" @@ "M" :> "m" @@ "N" :> "n" @@ "O" :> "o"
    @@ "P" :> "p" @@ "Q" :> "q" @@ "R" :> "r" @@ "S" :> "s" @@ "T" :> "t"
    @@ "U" :> "u" @@ "V" :> "v" @@ "W" :> "w" @@ "X" :> "x" @@ "Y" :> "y"
    @@ "Z" :> "z"

\* str.lower()
Lower(chars) ==
    [i \in 1..Len(chars) |->
        IF chars[i] \in DOMAIN LowerCase THEN LowerCase[chars[i]] ELSE chars[i]]

\* str.strip()
Strip(chars) == StripRight(StripLeft(chars))

\* key in query
Contains(key, query) ==
    \E i \in 0..(Len(query) - Len(key)) :
        SubSeq(query, i + 1, i + Len(key)) = key

\* get_fallback_response: the phrases looked for first, in the order of the
\* dict
responses ==
    <<
     [key |-> <<"s", "e", "a", "s", "o", "n", "a", "l", " ", "t", "r", "e", "n", "d", "s", " ", "d", "a", "i", "r", "y">>,
      response |-> "Dairy products have stable demand year-round with slight increases during winter months. Yogurt and flavored milk see higher demand in summer. Plan inventory considering festivals like Diwali and Holi."],
     [key |-> <<"s", "e", "a", "s", "o", "n", "a", "l", " ", "t", "r", "e", "n", "d", "s", " ", "v", "e", "g", "e", "t", "a", "b", "l", "e">>,
      response |-> "Vegetables follow strong seasonal patterns. Summer vegetables: tomatoes, cucumber, bell peppers peak. Winter: root vegetables, leafy greens dominate. Monsoon brings better shelf life for stored vegetables."],
     [key |-> <<"s", "e", "a", "s", "o", "n", "a", "l", " ", "t", "r", "e", "n", "d", "s", " ", "f", "r", "u", "i", "t">>,
      response |-> "Fruits are highly seasonal. Mangoes: summer peak. Apples/grapes: winter. Monsoon: stone fruits, citrus. Plan sourcing 2-3 weeks ahead. Consider storage capacity."],
     [key |-> <<"f", "e", "s", "t", "i", "v", "a", "l", " ", "d", "e", "m", "a", "n", "d">>,
      response |-> "Festival seasons (Diwali, Holi, NewYear) see 1.5-2x demand increases. Stock special items 3 weeks before. Snacks and dry goods see highest demand. Plan bulk purchases."],
     [key |-> <<"s", "u", "m", "m", "e", "r", " ", "i", "n", "v", "e", "n", "t", "o", "r", "y">>,
      response |-> "Summer strategy: Stock beverages at 1.5x normal levels. Increase fruits/vegetables daily. Reduce dairy shelf life considerations. Push ice-cream and cold beverages. Monitor expiry dates closely."],
     [key |-> <<"w", "i", "n", "t", "e", "r", " ", "i", "n", "v", "e", "n", "t", "o", "r", "y">>,
      response |-> "Winter strategy: Increase dairy products. Stock warm beverages (tea, coffee). Promote bakery items. Increase storage for longer shelf-life items. Plan for holiday shopping rush."],
     [key |-> <<"i", "n", "v", "e", "n", "t", "o", "r", "y", " ", "m", "a", "n", "a", "g", "e", "m", "e", "n", "t">>,
      response |-> "Best practices: Monitor reorder points closely. Maintain 20% safety stock. Track fast-moving items weekly. Implement FIFO. Use inventory management system. Regular stock audits."],
     [key |-> <<"p", "r", "i", "c", "i", "n", "g", " ", "s", "t", "r", "a", "t", "e", "g", "y">>,
      response |-> "Peak season: maintain or increase prices slightly. Off-season: run promotions. Monitor competitor pricing. Bundle slow items. Use dynamic pricing for perishables. Plan seasonal discounts."],
     [key |-> <<"d", "e", "m", "a", "n", "d", " ", "f", "o", "r", "e", "c", "a", "s", "t">>,
      response |-> "Use historical data from same season last year. Adjust for growth (5-10% annual). Consider local events and festivals. Track weather patterns. Update forecasts weekly."],
     [key |-> <<"r", "e", "o", "r", "d", "e", "r", " ", "p", "o", "i", "n", "t">>,
      response |-> "Calculate: (Average Daily Sales × Lead Time) + Safety Stock. Review monthly. Adjust for seasonality. Set alerts in system. Monitor supplier reliability."],
     [key |-> <<"h", "e", "l", "l", "o">>,
      response |-> "Hello! I'm your D-Mart AI Assistant. I can help with inventory management, seasonal planning, pricing strategies, and product insights. What would you like to know?"],
     [key |-> <<"h", "i">>,
      response |-> "Hi there! Ask me about inventory optimization, seasonal trends, pricing, or product categories. How can I help today?"],
     [key |-> <<"h", "e", "l", "p">>,
      response |-> "I can assist with: inventory management, seasonal demand forecasting, pricing strategies, category insights, stock optimization, and retail best practices. What's your question?"]
    >>

\* get_fallback_response: the single keywords looked for next
keywords ==
    <<
     [key |-> <<"d", "a", "i", "r", "y">>,
      response |-> "Dairy products are staple items with consistent demand. Winter sees 1.3x demand. Consider storage capacity and shelf life."],
     [key |-> <<"v", "e", "g", "e", "t", "a", "b", "l", "e">>,
      response |-> "Vegetables are seasonal. Fresh sourcing critical. Monsoon: 1.0x. Summer: 1.3x. Winter: 1.2x demand."],
     [key |-> <<"b", "e", "v", "e", "r", "a", "g", "e">>,
      response |-> "Beverages peak in summer (1.5x demand). Winter demand drops. Keep cold drinks well-stocked in summer."],
     [key |-> <<"s", "e", "a", "s", "o", "n">>,
      response |-> "Seasons significantly impact inventory. Summer: beverages, fruits up. Winter: dairy, bakery up. Monsoon: groceries up."],
     [key |-> <<"p", "r", "i", "c", "e">>,
      response |-> "Pricing depends on seasonality and demand. Peak season: maintain/increase. Off-season: promote. Monitor costs."],
     [key |-> <<"s", "t", "o", "c", "k">>,
      response |-> "Monitor stock levels closely. Set reorder points based on demand. Keep safety stock at 20%."],
     [key |-> <<"f", "o", "r", "e", "c", "a", "s", "t">>,
      response |-> "Demand forecasting uses historical data, seasonality, and growth projections. Update weekly."]
    >>

\* app.py 384: the answer when nothing matches
DefaultResponse ==
    "I'd be happy to help! Ask me about inventory management, seasonal trends, pricing strategies, demand forecasting, or product categories. For real-time AI responses, please configure a Google Gemini API key in the .env file."

\* app.py 330: the last-resort answer of the handler
ApologyResponse ==
    "I apologize for the technical difficulty. Please try asking your question again or contact support."

\* the first entry from i on whose key occurs in the query, 0 when none does
RECURSIVE FirstEntry(_, _, _)
FirstEntry(entries, query_lower, i) ==
    IF i > Len(entries) THEN 0
    ELSE IF Contains(entries[i].key, query_lower) THEN i
    ELSE FirstEntry(entries, query_lower, i + 1)

\* app.py 343-384
get_fallback_response(query) ==
    LET query_lower == Lower(query)
        r == FirstEntry(responses, query_lower, 1)
        k == FirstEntry(keywords, query_lower, 1)
    IN  IF r > 0 THEN responses[r].response
        ELSE IF k > 0 THEN keywords[k].response
        ELSE DefaultResponse

\* app.py 254: the value an unconfigured .env leaves in GOOGLE_API_KEY
PlaceholderKey ==
    <<"y", "o", "u", "r", "-", "g", "o", "o", "g", "l", "e", "-", "a", "p", "i", "-", "k", "e", "y", "-", "h", "e", "r", "e">>

\* every non-empty key taken for a real one
KeyValidNonEmpty(api_key) == Len(api_key) > 0

\* app.py 254: api_key and api_key not in ['your-google-api-key-here', '', None]
KeyValid(api_key) == Len(api_key) > 0 /\ api_key # PlaceholderKey

\* the values of GOOGLE_API_KEY a process may start with
ApiKeys ==
    {<<>>, <<" ", " ">>, PlaceholderKey,
     <<" ", "A", "I", "z", "a", "-", "k", "e", "y", "\n">>}

\* the messages posted to /api/chat
ChatMessages ==
    {<<>>,
     <<" ", "\t", " ">>,
     <<" ", "H", "e", "l", "l", "o", " ">>,
     <<"t", "h", "i", "s", " ", "s", "e", "a", "s", "o", "n">>,
     <<"S", "t", "o", "c", "k", " ", "p", "r", "i", "c", "e", "?">>,
     <<"x", "y", "z">>}

\* the JSON bodies posted to /api/chat
ChatBodies == {[message |-> message] : message \in ChatMessages} \cup {EmptyDict}

\* the remote call returns a text, or anything in the try block at 255-301
\* before the save raises
RemoteOutcomes == {"answers", "raises"}

\* response.text.strip() of the remote model
RemoteAnswers == {"Stock beverages at 1.5x the normal level in summer."}

\* print() returns, or raises when the write to stdout fails
PrintOutcomes == {"ok", "raises"}

\* message[:n]
Prefix(chars, n) == SubSeq(chars, 1, Min(n, Len(chars)))

\* save_chat inside try/except: the table afterwards
SavedChat(chats, message, bot_response, source, save_outcome) ==
    IF save_outcome = "ok"
    THEN Append(chats, ChatRow(Len(chats) + 1, message, bot_response, source))
    ELSE chats

\* log_activity in the same try, after save_chat: skipped when save_chat
\* raised (get_db_connection), and its own failure is caught
LoggedChat(activity, message, description, save_outcome, log_outcome) ==
    IF save_outcome # "connect_fails" /\ log_outcome = "ok"
    THEN Append(activity,
                [id |-> Len(activity) + 1,
                 activity_type |-> "chatbot_interaction",
                 description |-> description,
                 details |-> Prefix(message, 50)])
    ELSE activity

\* api_chat on a body: the two tables afterwards and the response.  remote
\* and answer are what the remote call does, fallback_print the outcome of
\* the prints at 304-309 (inside the outer try only), error_print that of
\* the prints of the last-resort handler at 325-327.
api_chat(chats, activity, api_key, body, remote, answer, fallback_print, error_print, save_outcome, log_outcome) ==
    LET message == Strip(DictGet(body, "message", <<>>))
    IN  IF Len(message) = 0
        THEN [chats |-> chats, activity |-> activity,
              response |-> [status |-> 400,
                            body |-> [error |-> "Empty message"]]]
        ELSE IF KeyValid(Strip(api_key)) /\ remote = "answers"
        THEN [chats |-> SavedChat(chats, message, answer, "google-gemini",
                                  save_outcome),
              activity |-> LoggedChat(activity, message,
                               "AI response generated", save_outcome,
                               log_outcome),
              response |-> [status |-> 200,
                            body |-> [response |-> answer,
                                      status |-> "success",
                                      source |-> "google-gemini"]]]
        ELSE IF fallback_print = "ok"
        THEN LET fallback_response == get_fallback_response(message)
             IN  [chats |-> SavedChat(chats, message, fallback_response,
                                      "fallback", save_outcome),
                  activity |-> LoggedChat(activity, message,
                                   "Fallback response sent", save_outcome,
                                   log_outcome),
                  response |-> [status |-> 200,
                                body |-> [response |-> fallback_response,
                                          status |-> "success",
                                          source |-> "fallback"]]]
        ELSE IF error_print = "raises"
        THEN [chats |-> chats, activity |-> activity,
              response |-> InternalError]
        ELSE [chats |-> SavedChat(chats, message, ApologyResponse, "error",
                                  save_outcome),
              activity |-> activity,
              response |-> [status |-> 500,
                            body |-> [response |-> ApologyResponse,
                                      status |-> "error",
                                      source |-> "error-fallback"]]]

InitChat ==
    /\ products_data = SampleCatalog
    /\ seasonal_patterns = get_default_seasonal_patterns
    /\ call = NoCall
    /\ pc = [t \in Threads |-> "idle"]
    /\ data = [t \in Threads |-> EmptyDict]
    /\ frame = [t \in Threads |-> EmptyFrame]
    /\ response = [t \in Threads |-> None]
    /\ inventory_analysis = <<>>
    /\ chatbot_conversations \in SampleChats
    /\ user_activity = <<>>
    /\ started = 0
    /\ products = SeededTable(products_data)
    /\ session = EmptyDict
    /\ config \in [GOOGLE_API_KEY : ApiKeys]

\* POST /api/chat
ApiChat(body, remote, answer, fallback_print, error_print, save_outcome, log_outcome) ==
    /\ started < MaxChats
    /\ started' = started + 1
    /\ LET after == api_chat(chatbot_conversations, user_activity,
                             config.GOOGLE_API_KEY, body, remote, answer,
                             fallback_print, error_print, save_outcome,
                             log_outcome)
       IN  /\ chatbot_conversations' = after.chats
           /\ user_activity' = after.activity
           /\ call' = [fn |-> "api_chat", data |-> body, remote |-> remote,
                       answer |-> answer, fallback_print |-> fallback_print,
                       response |-> after.response]
    /\ UNCHANGED <<products_data, seasonal_patterns, pc, data, frame,
                   response, inventory_analysis, products, session, config>>

NextChat ==
    \E body \in ChatBodies, remote \in RemoteOutcomes,
       answer \in RemoteAnswers, fallback_print \in PrintOutcomes,
       error_print \in PrintOutcomes, save_outcome \in DbOutcomes,
       log_outcome \in DbOutcomes :
        ApiChat(body, remote, answer, fallback_print, error_print,
                save_outcome, log_outcome)

SpecChat == InitChat /\ [][NextChat]_vars

(***************************************************************************)
(* The stored catalog: save_product, the seeding of init_db, the list      *)
(* load_products serves and the predictor's lookup of a listed product     *)
(***************************************************************************)
InitCatalog ==
    /\ products_data \in LoadedCatalogs
    /\ seasonal_patterns = get_default_seasonal_patterns
    /\ call = NoCall
    /\ pc = [t \in Threads |-> "idle"]
    /\ data = [t \in Threads |-> EmptyDict]
    /\ frame = [t \in Threads |-> EmptyFrame]
    /\ response = [t \in Threads |-> None]
    /\ inventory_analysis = <<>>
    /\ chatbot_conversations = <<>>
    /\ user_activity = <<>>
    /\ started = 0
    /\ products \in {<<>>, SeededTable(products_data)}
    /\ session = EmptyDict
    /\ config = DefaultConfig

\* save_product(product_obj)
SaveProduct(product_obj, outcome) ==
    /\ started < MaxSaves
    /\ started' = started + 1
    /\ LET after == save_product(products, product_obj, outcome)
       IN  /\ products' = after.table
           /\ call' = [fn |-> "save_product", product_obj |-> product_obj,
                       ok |-> DictGet(after, "returned", FALSE)]
    /\ UNCHANGED <<products_data, seasonal_patterns, pc, data, frame,
                   response, inventory_analysis, user_activity,
                   chatbot_conversations, session, config>>

\* init_db run again: seed_products_from_json
SeedProducts(count_outcome, outcomes) ==
    /\ products' = seed_products_from_json(products, products_data,
                                           count_outcome, outcomes)
    /\ call' = [fn |-> "seed_products_from_json"]
    /\ UNCHANGED <<products_data, seasonal_patterns, pc, data, frame,
                   response, inventory_analysis, user_activity, started,
                   chatbot_conversations, session, config>>

\* GET /api/products
ListProducts(outcome) ==
    /\ call' = [fn |-> "load_products",
                result |-> load_products(products, products_data, outcome)]
    /\ UNCHANGED <<products_data, seasonal_patterns, pc, data, frame,
                   response, inventory_analysis, user_activity, started,
                   chatbot_conversations, products, session, config>>

\* a product of the served list is analyzed: predict on its name
PredictListed(outcome, i, current_stock, season) ==
    /\ LET listed == load_products(products, products_data, outcome)
       IN  /\ i \in 1..Len(listed)
           /\ call' = [fn |-> "predict_listed", listed |-> listed[i],
                       result |-> predict_stock_requirement(products_data,
                                      seasonal_patterns, listed[i].name,
                                      current_stock, season)]
    /\ UNCHANGED <<products_data, seasonal_patterns, pc, data, frame,
                   response, inventory_analysis, user_activity, started,
                   chatbot_conversations, products, session, config>>

NextCatalog ==
    \/ \E product_obj \in SaveInputs, outcome \in DbOutcomes :
           SaveProduct(product_obj, outcome)
    \/ \E count_outcome \in DbOutcomes,
          failing \in {{}, DOMAIN products_data}
                         \cup {{i} : i \in DOMAIN products_data} :
           \* of the save_product calls of the run all succeed, one fails
           \* or all fail
           SeedProducts(count_outcome,
                        [i \in DOMAIN products_data |->
                            IF i \in failing THEN "execute_fails" ELSE "ok"])
    \/ \E outcome \in DbOutcomes : ListProducts(outcome)
    \/ \E outcome \in DbOutcomes, i \in 1..Len(NameOrder) :
           PredictListed(outcome, i, 10, "Winter")

SpecCatalog == InitCatalog /\ [][NextCatalog]_vars

(***************************************************************************)
(* The session of one browser: login, logout, the three pages and the       *)
(* profile update.  session is the dictionary Flask keeps for a client that *)
(* returns the cookie of the last response.                                 *)
(***************************************************************************)
\* str.title()
Title(chars) ==
    LET UpperCase == [c \in {LowerCase[u] : u \in DOMAIN LowerCase} |->
                         CHOOSE u \in DOMAIN LowerCase : LowerCase[u] = c]
        Cased(c) == c \in DOMAIN LowerCase \/ c \in DOMAIN UpperCase
    IN
    [i \in 1..Len(chars) |->
        IF i > 1 /\ Cased(chars[i - 1])
        THEN (IF chars[i] \in DOMAIN LowerCase THEN LowerCase[chars[i]]
              ELSE chars[i])
        ELSE (IF chars[i] \in DOMAIN UpperCase THEN UpperCase[chars[i]]
              ELSE chars[i])]

\* str.replace(old, new) for one-character strings
Replace(chars, old, new) ==
    [i \in 1..Len(chars) |-> IF chars[i] = old THEN new ELSE chars[i]]

\* str.split(sep)[0]
SplitFirst(chars, sep) ==
    IF \E i \in 1..Len(chars) : chars[i] = sep
    THEN SubSeq(chars, 1, (CHOOSE i \in 1..Len(chars) :
                              /\ chars[i] = sep
                              /\ \A j \in 1..(i - 1) : chars[j] # sep) - 1)
    ELSE chars

\* redirect(url_for('login'))
RedirectToLogin == [status |-> 302, location |-> "/login"]

NotAuthenticated ==
    [status |-> 401,
     body |-> [success |-> FALSE, message |-> "Not authenticated"]]

\* if email and password, only one of the two required
CredentialsGivenEither(email, password) == Len(email) > 0 \/ Len(password) > 0

\* if email and password
CredentialsGiven(email, password) == Len(email) > 0 /\ Len(password) > 0

\* data.get(key, '').strip() raises on a body that is no object and on a
\* value that is no string
Strippable(body, key) ==
    /\ ~IsNone(body)
    /\ (key \in DOMAIN body) => ~IsNone(body[key])

\* data.get(key, '').strip()
Stripped(body, key) == Strip(DictGet(body, key, <<>>))

\* api_login: the session afterwards and the response
api_login(sess, body) ==
    IF ~(Strippable(body, "email") /\ Strippable(body, "password"))
    THEN [session |-> sess, response |-> InternalError]
    ELSE LET email == Stripped(body, "email")
             password == Stripped(body, "password")
             DemoEmail == <<"d", "e", "m", "o", "@", "d", "m", "a", "r", "t", ".", "c", "o", "m">>
             DemoPassword == <<"d", "e", "m", "o", "1", "2", "3">>
             DemoUserId == <<"d", "e", "m", "o", "_", "u", "s", "e", "r">>
             DemoUsername == <<"D", "e", "m", "o", " ", "U", "s", "e", "r">>
             UserIdPrefix == <<"u", "s", "e", "r", "_">>
             LoggedIn ==
                 [status |-> 200,
                  body |-> [status |-> "success",
                            message |-> "Logged in successfully"]]
             InvalidLogin ==
                 [status |-> 401,
                  body |-> [error |-> "Invalid email or password"]]
         IN  IF email = DemoEmail /\ password = DemoPassword
             THEN [session |-> [k \in DOMAIN sess \cup {"user_id", "email", "username"} |->
                                   IF k = "user_id" THEN DemoUserId
                                   ELSE IF k = "email" THEN email
                                   ELSE IF k = "username" THEN DemoUsername
                                   ELSE sess[k]],
                   response |-> LoggedIn]
             ELSE IF CredentialsGiven(email, password)
             THEN [session |-> [k \in DOMAIN sess \cup {"user_id", "email", "username"} |->
                                   IF k = "user_id"
                                   THEN UserIdPrefix \o
                                        Replace(Replace(email, "@", "_"), ".", "_")
                                   ELSE IF k = "email" THEN email
                                   ELSE IF k = "username"
                                   THEN Title(SplitFirst(email, "@"))
                                   ELSE sess[k]],
                   response |-> LoggedIn]
             ELSE [session |-> sess, response |-> InvalidLogin]

\* logout
logout(sess) == [session |-> EmptyDict, response |-> RedirectToLogin]

\* log_activity: the table afterwards, and whether the call returned or
\* raised (get_db_connection is called before the try)
log_activity(activity, activity_type, description, details, outcome) ==
    IF outcome = "connect_fails"
    THEN [activity |-> activity, raised |-> TRUE]
    ELSE IF outcome = "execute_fails"
    THEN [activity |-> activity, raised |-> FALSE]
    ELSE [activity |-> Append(activity,
                          [id |-> Len(activity) + 1,
                           activity_type |-> activity_type,
                           description |-> description,
                           details |-> details]),
          raised |-> FALSE]

\* a page handler after its session test: log_activity, render_template
Visit(activity, description, template, context, outcome) ==
    LET logged == log_activity(activity, "page_visit", description, None,
                               outcome)
    IN  [activity |-> logged.activity,
         response |-> IF logged.raised THEN InternalError
                      ELSE [status |-> 200, template |-> template,
                            context |-> context]]

\* index
index(sess, activity, table, json, products_outcome, outcome) ==
    IF "user_id" \notin DOMAIN sess
    THEN [activity |-> activity, response |-> RedirectToLogin]
    ELSE Visit(activity, "User visited dashboard", "index.html",
               [products |-> load_products(table, json, products_outcome)],
               outcome)

\* analytics
analytics(sess, activity, outcome) ==
    IF "user_id" \notin DOMAIN sess
    THEN [activity |-> activity, response |-> RedirectToLogin]
    ELSE Visit(activity, "User visited analytics page", "analytics.html",
               EmptyDict, outcome)

\* settings
settings(sess, activity, outcome) ==
    IF "user_id" \notin DOMAIN sess
    THEN [activity |-> activity, response |-> RedirectToLogin]
    ELSE Visit(activity, "User visited settings page", "settings.html",
               EmptyDict, outcome)

\* api_update_profile
api_update_profile(sess, activity, body, outcome) ==
    IF "user_id" \notin DOMAIN sess
    THEN [session |-> sess, activity |-> activity,
          response |-> NotAuthenticated]
    ELSE IF ~(Strippable(body, "username") /\ Strippable(body, "email"))
    THEN [session |-> sess, activity |-> activity,
          response |-> InternalError]
    ELSE LET username == Stripped(body, "username")
             email == Stripped(body, "email")
             updated == [k \in DOMAIN sess \cup {"username", "email"} |->
                            IF k = "username" THEN username
                            ELSE IF k = "email" THEN email
                            ELSE sess[k]]
             logged == log_activity(activity, "profile_update",
                                    "User updated profile", email, outcome)
         IN  IF Len(username) = 0 \/ Len(email) = 0
             THEN [session |-> sess, activity |-> activity,
                   response |-> [status |-> 400,
                                 body |-> [success |-> FALSE,
                                           message |-> "Username and email are required"]]]
             ELSE [session |-> updated, activity |-> logged.activity,
                   response |-> IF logged.raised THEN InternalError
                                ELSE [status |-> 200,
                                      body |-> [success |-> TRUE,
                                                message |-> "Profile updated successfully",
                                                username |-> username,
                                                email |-> email]]]

\* the JSON bodies posted to /api/login: both fields, one of them missing
\* or null, and a body that is no object
LoginBodies ==
    LET LoginEmails ==
            {<<>>,
             <<" ", "\t">>,
             <<" ", "a", ".", "b", "@", "c", ".", "d", " ">>,
             <<" ", "d", "e", "m", "o", "@", "d", "m", "a", "r", "t", ".", "c", "o", "m">>}
        LoginPasswords ==
            {<<>>, <<" ">>, <<"p", "w">>, <<"d", "e", "m", "o", "1", "2", "3">>}
    IN
    [email : LoginEmails, password : LoginPasswords]
    \cup [email : LoginEmails] \cup [password : LoginPasswords]
    \cup {[email |-> None, password |-> <<"p", "w">>], None}

\* the JSON bodies posted to /api/update-profile
ProfileBodies ==
    [username : {<<>>, <<" ", "A", "l", " ">>}, email : {<<" ">>, <<"a", "l", "@", "c", ".", "d">>}]
    \cup {[username |-> <<" ", "A", "l", " ">>], None}

InitSession ==
    /\ products_data \in LoadedCatalogs
    /\ seasonal_patterns = get_default_seasonal_patterns
    /\ call = NoCall
    /\ pc = [t \in Threads |-> "idle"]
    /\ data = [t \in Threads |-> EmptyDict]
    /\ frame = [t \in Threads |-> EmptyFrame]
    /\ response = [t \in Threads |-> None]
    /\ inventory_analysis = <<>>
    /\ user_activity = <<>>
    /\ started = 0
    /\ IdleStore

\* POST /api/login
ApiLogin(body) ==
    /\ LET after == api_login(session, body)
       IN  /\ session' = after.session
           /\ call' = [fn |-> "api_login", data |-> body,
                       response |-> after.response]
    /\ UNCHANGED user_activity
    /\ UNCHANGED <<products_data, seasonal_patterns, pc, data, frame,
                   response, inventory_analysis, started,
                   chatbot_conversations, products, config>>

\* GET /logout
Logout ==
    /\ LET after == logout(session)
       IN  /\ session' = after.session
           /\ call' = [fn |-> "logout", response |-> after.response]
    /\ UNCHANGED user_activity
    /\ UNCHANGED <<products_data, seasonal_patterns, pc, data, frame,
                   response, inventory_analysis, started,
                   chatbot_conversations, products, config>>

\* GET /
Index(products_outcome, outcome) ==
    /\ Len(user_activity) < MaxVisits
    /\ LET after == index(session, user_activity, products, products_data,
                          products_outcome, outcome)
       IN  /\ user_activity' = after.activity
           /\ call' = [fn |-> "index", response |-> after.response]
    /\ UNCHANGED session
    /\ UNCHANGED <<products_data, seasonal_patterns, pc, data, frame,
                   response, inventory_analysis, started,
                   chatbot_conversations, products, config>>

\* GET /analytics
Analytics(outcome) ==
    /\ Len(user_activity) < MaxVisits
    /\ LET after == analytics(session, user_activity, outcome)
       IN  /\ user_activity' = after.activity
           /\ call' = [fn |-> "analytics", response |-> after.response]
    /\ UNCHANGED session
    /\ UNCHANGED <<products_data, seasonal_patterns, pc, data, frame,
                   response, inventory_analysis, started,
                   chatbot_conversations, products, config>>

\* GET /settings
Settings(outcome) ==
    /\ Len(user_activity) < MaxVisits
    /\ LET after == settings(session, user_activity, outcome)
       IN  /\ user_activity' = after.activity
           /\ call' = [fn |-> "settings", response |-> after.response]
    /\ UNCHANGED session
    /\ UNCHANGED <<products_data, seasonal_patterns, pc, data, frame,
                   response, inventory_analysis, started,
                   chatbot_conversations, products, config>>

\* POST /api/update-profile
ApiUpdateProfile(body, outcome) ==
    /\ Len(user_activity) < MaxVisits
    /\ LET after == api_update_profile(session, user_activity, body, outcome)
       IN  /\ session' = after.session
           /\ user_activity' = after.activity
           /\ call' = [fn |-> "api_update_profile", data |-> body,
                       response |-> after.response]
    /\ UNCHANGED <<products_data, seasonal_patterns, pc, data, frame,
                   response, inventory_analysis, started,
                   chatbot_conversations, products, config>>

NextSession ==
    \/ \E body \in LoginBodies : ApiLogin(body)
    \/ Logout
    \/ \E products_outcome \in DbOutcomes, outcome \in DbOutcomes :
           Index(products_outcome, outcome)
    \/ \E outcome \in DbOutcomes : Analytics(outcome)
    \/ \E outcome \in DbOutcomes : Settings(outcome)
    \/ \E body \in ProfileBodies, outcome \in DbOutcomes :
           ApiUpdateProfile(body, outcome)

SpecSession == InitSession /\ [][NextSession]_vars

(***************************************************************************)
(* Properties of the recommendation engine                                 *)
(***************************************************************************)
\* every recommendation the finished call returned, with the stock and the
\* predicted demand it was computed from
Returned ==
    IF ~call.done THEN {}
    ELSE IF call.fn = "recommend"
    THEN {[current_stock |-> call.current_stock,
           predicted_demand |-> call.predicted_demand,
           rec |-> call.result]}
    ELSE IF call.fn = "predict" /\ "recommendation" \in DOMAIN call.result
    THEN {[current_stock |-> call.current_stock,
           predicted_demand |-> call.result.predicted_demand,
           rec |-> call.result.recommendation]}
    ELSE {}

\* C1: recommend returns exactly one decision, fixed by current_stock and
\* predicted_demand alone: ADD STOCK iff current_stock < predicted_demand;
\* otherwise REDUCE STOCK iff current_stock > 1.5 * optimal_level; otherwise
\* MAINTAIN.  current_stock = reorder_point is never ADD STOCK and
\* current_stock = 1.5 * optimal_level is MAINTAIN (demand 100: stock 100 and
\* 180 give MAINTAIN, 181 gives REDUCE STOCK); the season changes nothing.
C1_DecisionRule ==
    \A r \in Returned :
        LET cs == r.current_stock
            pd == r.predicted_demand
            opt == r.rec.optimal_level
            d == r.rec.decision
        IN  /\ d \in {"ADD STOCK", "REDUCE STOCK", "MAINTAIN"}
            /\ (d = "ADD STOCK") <=> (cs < pd)
            /\ (d = "REDUCE STOCK") <=> (cs >= pd /\ 2 * cs > 3 * opt)
            /\ (d = "MAINTAIN") <=> (cs >= pd /\ 2 * cs <= 3 * opt)
            /\ (cs = r.rec.reorder_point) => (d # "ADD STOCK")
            /\ (2 * cs = 3 * opt) => (d = "MAINTAIN")
            /\ (pd = 100 /\ cs \in {100, 180}) => (d = "MAINTAIN")
            /\ (pd = 100 /\ cs = 181) => (d = "REDUCE STOCK")
            /\ \A s \in SeasonNames :
                   generate_recommendation(cs, pd, s) = r.rec

C1_Witness ==
    /\ call.fn = "recommend" /\ call.done
    /\ call.predicted_demand = 100 /\ call.current_stock = 181
    /\ call.result.decision = "REDUCE STOCK"

\* C2 as stated: with predicted_demand = 0, recommend returns MAINTAIN for
\* every current_stock >= 0, with quantity_action 0 for current_stock = 0.
C2_ZeroDemandAlwaysMaintain ==
    \A r \in Returned :
        (r.predicted_demand = 0 /\ r.current_stock >= 0) =>
            /\ r.rec.decision = "MAINTAIN"
            /\ (r.current_stock = 0) => (r.rec.quantity_action = 0)

\* C2 amended: with predicted_demand = 0 (safety_stock = 0, optimal_level =
\* 0), recommend returns MAINTAIN with quantity_action 0 for current_stock =
\* 0, and REDUCE STOCK with quantity_action = current_stock for every
\* current_stock > 0.
C2_ZeroDemand ==
    \A r \in Returned :
        (r.predicted_demand = 0 /\ r.current_stock >= 0) =>
            /\ r.rec.safety_stock = 0
            /\ r.rec.optimal_level = 0
            /\ (r.current_stock = 0) =>
                   (r.rec.decision = "MAINTAIN" /\ r.rec.quantity_action = 0)
            /\ (r.current_stock > 0) =>
                   /\ r.rec.decision = "REDUCE STOCK"
                   /\ r.rec.quantity_action = r.current_stock

C2_Witness ==
    /\ call.fn = "recommend" /\ call.done
    /\ call.predicted_demand = 0 /\ call.current_stock = 5
    /\ call.result.decision = "REDUCE STOCK"
    /\ call.result.quantity_action = 5

\* C3: every recommendation returned, by recommend and inside every
\* prediction on either path, has safety_stock = floor(predicted_demand *
\* 0.2), reorder_point = predicted_demand, optimal_level = predicted_demand +
\* safety_stock, required_stock = optimal_level and stock_gap = max(0,
\* optimal_level - current_stock), which is never negative.
C3_DerivedQuantities ==
    \A r \in Returned :
        LET pd == r.predicted_demand
        IN  /\ r.rec.safety_stock = (2 * pd) \div 10
            /\ r.rec.reorder_point = pd
            /\ r.rec.optimal_level = pd + r.rec.safety_stock
            /\ r.rec.required_stock = r.rec.optimal_level
            /\ r.rec.stock_gap =
                   (IF r.rec.optimal_level - r.current_stock > 0
                    THEN r.rec.optimal_level - r.current_stock ELSE 0)
            /\ r.rec.stock_gap >= 0

C3_Witness ==
    /\ call.fn = "recommend" /\ call.done
    /\ call.predicted_demand = 99 /\ call.current_stock = 150
    /\ call.result.safety_stock = 19
    /\ call.result.optimal_level = 118
    /\ call.result.stock_gap = 0

\* C4: quantity_action and advice follow the decision: ADD STOCK has
\* quantity_action = optimal_level - current_stock, which is > 0, and advice
\* "Add {quantity_action} units"; REDUCE STOCK has quantity_action =
\* current_stock - optimal_level and advice "Reduce by {quantity_action}
\* units"; MAINTAIN has quantity_action = current_stock and advice
\* "Maintain {current_stock} units".
C4_QuantityAndAdvice ==
    \A r \in Returned :
        LET cs == r.current_stock
            q == r.rec.quantity_action
            opt == r.rec.optimal_level
        IN  /\ (r.rec.decision = "ADD STOCK") =>
                   /\ q = opt - cs
                   /\ q > 0
                   /\ r.rec.advice = "Add " \o ToString(q) \o " units"
            /\ (r.rec.decision = "REDUCE STOCK") =>
                   /\ q = cs - opt
                   /\ r.rec.advice = "Reduce by " \o ToString(q) \o " units"
            /\ (r.rec.decision = "MAINTAIN") =>
                   /\ q = cs
                   /\ r.rec.advice = "Maintain " \o ToString(cs) \o " units"
            /\ (cs = 50 /\ r.predicted_demand = 200) =>
                   r.rec.advice = "Add 190 units"
            /\ (cs = 100 /\ r.predicted_demand = 100) =>
                   r.rec.advice = "Maintain 100 units"

C4_Witness ==
    /\ call.fn = "predict" /\ call.done
    /\ call.product_name = "Milk 1L" /\ call.current_stock = 50
    /\ call.season = "Summer"
    /\ call.result.predicted_demand = 200
    /\ call.result.recommendation.decision = "ADD STOCK"
    /\ call.result.recommendation.quantity_action = 190
    /\ call.result.recommendation.advice = "Add 190 units"

(***************************************************************************)
(* Properties of the stock predictor                                       *)
(***************************************************************************)
PredictDone == call.fn = "predict" /\ call.done

Completed == PredictDone /\ "raised" \notin DOMAIN call.result

\* the catalog positions whose entry carries the requested name
Matches ==
    {i \in 1..Len(products_data) :
        "name" \in DOMAIN products_data[i]
        /\ products_data[i].name = call.product_name}

FirstMatch == CHOOSE i \in Matches : \A j \in Matches : i <= j

\* the multiplier the loaded table configures for (season, category), 1.0
\* (10 tenths) for every pair it does not hold
Configured(season, category) ==
    IF season \in DOMAIN seasonal_patterns
       /\ category \in DOMAIN seasonal_patterns[season]
    THEN seasonal_patterns[season][category]
    ELSE 10

\* the base demand of section 4.2
TableBaseDemand(category) ==
    CASE category = "Groceries" -> 150
      [] category = "Dairy" -> 200
      [] category = "Beverages" -> 180
      [] category = "Fruits" -> 120
      [] category = "Vegetables" -> 140
      [] category = "Personal Care" -> 90
      [] category = "Snacks" -> 160
      [] category = "Frozen" -> 80
      [] category = "Condiments" -> 70
      [] category = "Miscellaneous" -> 100
      [] OTHER -> 100

\* C5: for a name that matches a catalog entry, predict returns the entry's
\* category ("Groceries" when the field is absent), seasonal_multiplier =
\* multiplier(season, category), predicted_demand = floor(base_demand(category)
\* * seasonal_multiplier) and the entry's price and unit.
C5_KnownProduct ==
    (Completed /\ Matches # {}) =>
        LET e == products_data[FirstMatch]
            r == call.result
            category == IF "category" \in DOMAIN e THEN e.category
                        ELSE "Groceries"
            multiplier == Configured(call.season, category)
        IN  /\ r.category = category
            /\ r.seasonal_multiplier = multiplier
            /\ r.predicted_demand =
                   (TableBaseDemand(category) * multiplier) \div 10
            /\ ("current_price" \in DOMAIN e) => (r.price = e.current_price)
            /\ ("unit" \in DOMAIN e) => (r.unit = e.unit)

\* C6: for a name that matches no catalog entry, predict ignores the pattern
\* table and returns category "Miscellaneous", price 0, unit "pack",
\* seasonal_multiplier = the season-only factor (Summer 1.3, Winter 0.9,
\* Monsoon 1.2, Regular 1.0, any other season 1.0) and predicted_demand =
\* floor(100 * factor); predict("Unknown Widget", 10, "Winter") gives demand
\* 90, optimal_level 108 and ADD STOCK with quantity_action 98.
C6_UnknownProduct ==
    (PredictDone /\ Matches = {}) =>
        LET r == call.result
            factor == CASE call.season = "Summer" -> 13
                        [] call.season = "Winter" -> 9
                        [] call.season = "Monsoon" -> 12
                        [] call.season = "Regular" -> 10
                        [] OTHER -> 10
        IN  /\ "raised" \notin DOMAIN r
            /\ r.category = "Miscellaneous"
            /\ r.price = 0
            /\ r.unit = "pack"
            /\ r.seasonal_multiplier = factor
            /\ r.predicted_demand = (100 * factor) \div 10
            /\ (call.product_name = "Unknown Widget" /\ call.current_stock = 10
                /\ call.season = "Winter") =>
                   /\ r.predicted_demand = 90
                   /\ r.recommendation.optimal_level = 108
                   /\ r.recommendation.decision = "ADD STOCK"
                   /\ r.recommendation.quantity_action = 98

C6_Witness ==
    /\ PredictDone
    /\ products_data = SampleCatalog
    /\ seasonal_patterns = OverridePatterns
    /\ call.product_name = "Unknown Widget" /\ call.current_stock = 10
    /\ call.season = "Winter"
    /\ call.result.category = "Miscellaneous"
    /\ call.result.predicted_demand = 90
    /\ call.result.recommendation.quantity_action = 98

\* C7: the seasonal multiplier lookup is total and exact-match on both
\* levels: a (season, category) pair the loaded table holds gives the
\* configured value, every other pair (unknown season, unknown category,
\* wrong letter case, category absent from the season's sub-table such as
\* Dairy in Summer of the default table) gives 1.0.
C7_MultiplierLookup ==
    (Completed /\ Matches # {}) =>
        LET r == call.result
        IN  /\ r.seasonal_multiplier = Configured(call.season, r.category)
            /\ (call.season \notin DOMAIN seasonal_patterns) =>
                   (r.seasonal_multiplier = 10)
            /\ (call.season \in DOMAIN seasonal_patterns
                /\ r.category \notin DOMAIN seasonal_patterns[call.season]) =>
                   (r.seasonal_multiplier = 10)
            /\ (seasonal_patterns = get_default_seasonal_patterns
                /\ r.category = "Dairy" /\ call.season = "Summer") =>
                   (r.seasonal_multiplier = 10)
            /\ (call.season = "summer") => (r.seasonal_multiplier = 10)

C7_Witness ==
    /\ Completed
    /\ seasonal_patterns = get_default_seasonal_patterns
    /\ call.product_name = "Milk 1L" /\ call.season = "Summer"
    /\ call.result.category = "Dairy"
    /\ call.result.seasonal_multiplier = 10

PredictionFields ==
    {"product", "category", "current_stock", "season", "predicted_demand",
     "seasonal_multiplier", "recommendation", "price", "unit"}

RecommendationFields ==
    {"decision", "advice", "quantity_action", "optimal_level",
     "reorder_point", "safety_stock", "required_stock", "stock_gap"}

\* C9: predict never fails: for every product name, season and non-negative
\* stock, with any loaded catalog and pattern table, it returns a complete
\* PredictionResult; a miss on product, season or category is resolved by
\* the fallback defaults, never by an error.
C9_PredictTotal ==
    PredictDone =>
        /\ "raised" \notin DOMAIN call.result
        /\ DOMAIN call.result = PredictionFields
        /\ DOMAIN call.result.recommendation = RecommendationFields
        /\ call.result.product = call.product_name
        /\ call.result.season = call.season
        /\ call.result.current_stock = call.current_stock

C9_Witness ==
    /\ PredictDone
    /\ call.product_name = "Toy Car" /\ call.season = "summer"
    /\ products_data = SampleCatalog
    /\ call.result.category = "Toys"
    /\ call.result.predicted_demand = 100
    /\ call.result.unit = "pack"

(***************************************************************************)
(* Properties of the analyze request handler                               *)
(***************************************************************************)
\* a stock value that is negative or no integer
InvalidStock(v) ==
    \/ v.type = "int" /\ v.value < 0
    \/ v.type = "float" /\ v.tenths # 0
    \/ v.type = "str" /\ (~ParseInt(v.chars).ok \/ ParseInt(v.chars).value < 0)
    \/ v.type = "null"

InsidePredict == {"find", "multiplier", "compute"}

\* C8: the analyze handler rejects a stock value that is negative or not an
\* integer with a validation error before the predictor is invoked: predict
\* is never called for it, no analysis record is saved and no
\* 'inventory_analysis' activity is logged.
C8_InvalidStockRejected ==
    /\ \A t \in Threads :
           (RequiredFields \subseteq DOMAIN data[t]
            /\ InvalidStock(data[t].stock)) =>
               /\ pc[t] \notin InsidePredict \cup {"save", "log"}
               /\ (pc[t] = "done") => (response[t].status = 400)
    /\ \A i \in 1..Len(inventory_analysis) :
           inventory_analysis[i].current_stock >= 0

\* the result predict gives for the request of thread t when run alone
AloneResult(t) ==
    predict_stock_requirement(products_data, seasonal_patterns,
                              data[t].product, PyInt(data[t].stock).value,
                              data[t].season)

C10_SameAsAlone ==
    /\ \A t \in Threads :
           /\ (pc[t] \in {"save", "log"}) =>
                  (frame[FrameOf(t)].prediction = AloneResult(t))
           /\ (pc[t] = "done" /\ response[t].status = 200) =>
                  (response[t].body = AloneResult(t))
    /\ \A t1, t2 \in Threads :
           (pc[t1] = "done" /\ pc[t2] = "done"
            /\ response[t1].status = 200 /\ response[t2].status = 200
            /\ data[t1] = data[t2]) =>
               (response[t1].body = response[t2].body)

C10_TablesUnchanged ==
    /\ products_data' = products_data
    /\ seasonal_patterns' = seasonal_patterns

\* C10: predict is pure: it never modifies the catalog or the pattern
\* tables, two calls with identical inputs return identical results, and
\* under any interleaving of concurrent calls each call returns the result
\* it would return if run alone.
C10_PredictPure == [](C10_SameAsAlone) /\ [][C10_TablesUnchanged]_vars

\* one call has just returned while another, with other inputs, is inside
\* predict
C10_Witness ==
    /\ pc[1] = "save" /\ pc[2] = "compute"
    /\ data[1].product = "Unknown Widget" /\ data[2].product = "Milk 1L"
    /\ data[1].stock # data[2].stock
    /\ frame[1].prediction.category = "Miscellaneous"
    /\ frame[2].category = "Dairy"

(***************************************************************************)
(* Properties of the analyze handler and the records it stores             *)
(***************************************************************************)
\* the request of thread t passed both checks of api_analyze
Accepted(t) ==
    /\ RequiredFields \subseteq DOMAIN data[t]
    /\ PyInt(data[t].stock).ok

\* the stored row carries the fields of the prediction result r
RecordMatches(row, r) ==
    /\ row.category = r.category
    /\ row.season = r.season
    /\ row.current_stock = r.current_stock
    /\ row.predicted_demand = r.predicted_demand
    /\ row.recommendation = r.recommendation.advice
    /\ row.decision = r.recommendation.decision
    /\ row.price = r.price
    /\ row.unit = r.unit

C11_Returned ==
    \A t \in Threads :
        (pc[t] = "done" /\ Accepted(t)) =>
            /\ response[t].status = 200
            /\ response[t].body = AloneResult(t)

C11_SaveStep ==
    /\ \A t \in Threads :
           (pc[t] = "save" /\ pc'[t] = "log") =>
               \/ inventory_analysis' = inventory_analysis
               \/ /\ Len(inventory_analysis') = Len(inventory_analysis) + 1
                  /\ SubSeq(inventory_analysis', 1, Len(inventory_analysis))
                         = inventory_analysis
                  /\ RecordMatches(inventory_analysis'[Len(inventory_analysis')],
                                   AloneResult(t))
    /\ (\A t \in Threads : ~(pc[t] = "save" /\ pc'[t] = "log")) =>
           (inventory_analysis' = inventory_analysis)

\* C11: every accepted analyze request returns the prediction result to the
\* caller, and its save step appends exactly one analysis record carrying
\* the category, season, stock, demand, advice, decision, price and unit of
\* that result, or no record when the save fails; no other step of the
\* handler touches the analysis table.
C11_ResultReturnedAndSaved == [](C11_Returned) /\ [][C11_SaveStep]_vars

\* a request lacks one of the fields product, season, stock
LacksField(t) == ~(RequiredFields \subseteq DOMAIN data[t])

C16_Rejected ==
    \A t \in Threads :
        (LacksField(t) /\ pc[t] # "idle") =>
            /\ pc[t] \in {"validate", "done"}
            /\ frame[FrameOf(t)].prediction = None
            /\ (pc[t] = "done") =>
                   (response[t] = [status |-> 400,
                                   body |-> [error |-> "Missing required fields"]])

C16_StoresUntouched ==
    \A t \in Threads :
        (LacksField(t) /\ pc[t] = "validate" /\ pc'[t] = "done") =>
            /\ inventory_analysis' = inventory_analysis
            /\ user_activity' = user_activity
            /\ chatbot_conversations' = chatbot_conversations
            /\ products' = products
            /\ products_data' = products_data
            /\ seasonal_patterns' = seasonal_patterns

\* C16: an analyze request that lacks product, season or stock is answered
\* 400 'Missing required fields' without entering the predictor, and the
\* step that rejects it changes no table and no catalog.
C16_MissingFieldsRejected == [](C16_Rejected) /\ [][C16_StoresUntouched]_vars

\* a request with a product but no stock was rejected after another request
\* had stored a record
C16_Witness ==
    \E t \in Threads :
        /\ pc[t] = "done"
        /\ LacksField(t)
        /\ "product" \in DOMAIN data[t]
        /\ Len(inventory_analysis) > 0

(***************************************************************************)
(* Properties of the analytics summary                                     *)
(***************************************************************************)
\* get_analytics_data has just returned a summary of the stored tables
Summarized ==
    /\ call.fn = "get_analytics_data"
    /\ call.outcome = "ok"
    /\ "returned" \in DOMAIN call.result

Summary == call.result.returned

\* the number of stored rows of a table that hold key in a column
StoredWith(table, column, key) ==
    Cardinality({i \in DOMAIN table : table[i][column] = key})

RECURSIVE SumOver(_, _)
SumOver(map, keys) ==
    IF keys = {} THEN 0
    ELSE LET key == CHOOSE key \in keys : TRUE
         IN  map[key] + SumOver(map, keys \ {key})

\* map is the frequency map of a column of a table
FrequencyMap(map, table, column) ==
    /\ DOMAIN map = {table[i][column] : i \in DOMAIN table}
    /\ \A key \in DOMAIN map : map[key] = StoredWith(table, column, key)

\* C12: the summary reports total_analyses and total_chats as the numbers of
\* stored analysis and chat records, and its maps by category, season,
\* decision and chat source give for each key the number of stored records
\* with that key, so the counts of each analysis map sum to total_analyses;
\* for an empty history the counts are zero and the maps empty.
C12_SummaryCounts ==
    Summarized =>
        /\ Summary.total_analyses = Len(inventory_analysis)
        /\ Summary.total_chats = Len(chatbot_conversations)
        /\ FrequencyMap(Summary.categories, inventory_analysis, "category")
        /\ FrequencyMap(Summary.seasons, inventory_analysis, "season")
        /\ FrequencyMap(Summary.decisions, inventory_analysis, "decision")
        /\ FrequencyMap(Summary.chat_sources, chatbot_conversations, "source")
        /\ \A map \in {Summary.categories, Summary.seasons, Summary.decisions} :
               SumOver(map, DOMAIN map) = Summary.total_analyses
        /\ (Len(inventory_analysis) = 0) =>
               /\ Summary.total_analyses = 0
               /\ Summary.categories = EmptyDict
               /\ Summary.seasons = EmptyDict
               /\ Summary.decisions = EmptyDict
               /\ Summary.top_products = <<>>
               /\ Summary.recent_analyses = <<>>
        /\ (Len(chatbot_conversations) = 0) =>
               /\ Summary.total_chats = 0
               /\ Summary.chat_sources = EmptyDict

\* a summary taken after a save, of analyses in several categories and
\* decisions and of chats from several sources
C12_Witness ==
    /\ Summarized
    /\ started > 0
    /\ Cardinality(DOMAIN Summary.categories) >= 3
    /\ Cardinality(DOMAIN Summary.decisions) >= 2
    /\ Cardinality(DOMAIN Summary.chat_sources) >= 2
    /\ \E key \in DOMAIN Summary.categories : Summary.categories[key] >= 2

\* an empty history was summarized
EmptyHistorySummarized ==
    /\ Summarized
    /\ Len(inventory_analysis) = 0
    /\ Len(chatbot_conversations) = 0

StoredRows == {inventory_analysis[i] : i \in DOMAIN inventory_analysis}

StoredNames == {inventory_analysis[i].product_name : i \in DOMAIN inventory_analysis}

\* C13: top_products lists at most 10 distinct products with their analysis
\* counts in non-increasing order, and a product is left out only when 10
\* are listed and none of them has a lower count; recent_analyses lists at
\* most 20 distinct stored records by creation time descending, and a record
\* is left out only when 20 are listed and none of them is older.
C13_TopAndRecent ==
    Summarized =>
        LET top == Summary.top_products
            recent == Summary.recent_analyses
        IN  /\ Len(top) <= 10
            /\ \A i \in DOMAIN top :
                   top[i].count =
                       StoredWith(inventory_analysis, "product_name",
                                  top[i].product_name)
            /\ \A i, j \in DOMAIN top :
                   (i < j) => /\ top[i].product_name # top[j].product_name
                              /\ top[i].count >= top[j].count
            /\ \A name \in StoredNames \ {top[i].product_name : i \in DOMAIN top} :
                   /\ Len(top) = 10
                   /\ \A i \in DOMAIN top :
                          StoredWith(inventory_analysis, "product_name", name)
                              <= top[i].count
            /\ Len(recent) <= 20
            /\ \A i \in DOMAIN recent : recent[i] \in StoredRows
            /\ \A i, j \in DOMAIN recent :
                   (i < j) => /\ recent[i].id # recent[j].id
                              /\ recent[i].created_at >= recent[j].created_at
            /\ \A row \in StoredRows \ {recent[i] : i \in DOMAIN recent} :
                   /\ Len(recent) = 20
                   /\ \A i \in DOMAIN recent :
                          row.created_at <= recent[i].created_at

\* more than 10 products and more than 20 records are stored, products with
\* different counts are listed and a record as new as a listed one is left
\* out
C13_Witness ==
    /\ Summarized
    /\ Cardinality(StoredNames) > 10
    /\ Len(inventory_analysis) > 20
    /\ Len(Summary.top_products) = 10
    /\ Summary.top_products[1].count > Summary.top_products[10].count
    /\ Len(Summary.recent_analyses) = 20
    /\ \E row \in StoredRows :
           /\ \A i \in 1..20 : Summary.recent_analyses[i] # row
           /\ row.created_at = Summary.recent_analyses[20].created_at

\* the products load_products gave the dashboard handler all carry a price
ListedPriced ==
    LET listed == load_products(products, products_data, call.products_outcome)
    IN  \A i \in DOMAIN listed :
            ("current_price" \in DOMAIN listed[i]) =>
                ~IsNone(listed[i].current_price)

\* C14: when the store cannot be opened or a query fails, get_analytics_data
\* returns an empty summary and does not raise, and the dashboard-stats
\* handler answers with total_analyses = 0 and total_chats = 0.
C14_FailureContained ==
    /\ (call.fn = "get_analytics_data" /\ call.outcome # "ok") =>
           (call.result = [returned |-> EmptyDict])
    /\ (call.fn = "api_dashboard_stats" /\ call.outcome # "ok"
        /\ ListedPriced) =>
           /\ call.response.status = 200
           /\ call.response.body.total_analyses = 0
           /\ call.response.body.total_chats = 0

(***************************************************************************)
(* Properties of the chat handler                                          *)
(***************************************************************************)
\* the step handles a chat request; its message after stripping
ChatStep == call'.fn = "api_chat" /\ started' = started + 1

SentMessage == Strip(DictGet(call'.data, "message", <<>>))

\* a key is configured that is neither empty nor the placeholder, and the
\* remote call of the step succeeds
RemoteSucceeds ==
    LET api_key == Strip(config.GOOGLE_API_KEY)
    IN  /\ Len(api_key) > 0
        /\ api_key # PlaceholderKey
        /\ call'.remote = "answers"

FallbackAnswer ==
    [status |-> 200,
     body |-> [response |-> get_fallback_response(SentMessage),
               status |-> "success", source |-> "fallback"]]

EmptyRejected ==
    /\ call'.response.status = 400
    /\ "error" \in DOMAIN call'.response.body
    /\ chatbot_conversations' = chatbot_conversations
    /\ user_activity' = user_activity

RemoteAnswer ==
    [status |-> 200,
     body |-> [response |-> call'.answer, status |-> "success",
               source |-> "google-gemini"]]

C15_AlwaysFallback ==
    ChatStep =>
        IF Len(SentMessage) = 0 THEN EmptyRejected
        ELSE /\ (DictGet(call'.response.body, "source", "") = "google-gemini")
                    <=> RemoteSucceeds
             /\ RemoteSucceeds => (call'.response = RemoteAnswer)
             /\ ~RemoteSucceeds => (call'.response = FallbackAnswer)

\* C15 as stated: the answer of a non-empty message is the remote one exactly
\* when a valid key is configured and the remote call succeeds, and the
\* keyword fallback tagged 'fallback' with status 'success' in every other
\* case; an empty message is rejected and nothing is saved.
C15_SourceSelection == [][C15_AlwaysFallback]_vars

C15_FallbackUnlessError ==
    ChatStep =>
        IF Len(SentMessage) = 0 THEN EmptyRejected
        ELSE /\ (DictGet(call'.response.body, "source", "") = "google-gemini")
                    <=> RemoteSucceeds
             /\ RemoteSucceeds => (call'.response = RemoteAnswer)
             /\ (~RemoteSucceeds /\ call'.fallback_print = "ok") =>
                    (call'.response = FallbackAnswer)
             /\ (~RemoteSucceeds /\ call'.fallback_print # "ok") =>
                    \/ call'.response = InternalError
                    \/ call'.response =
                           [status |-> 500,
                            body |-> [response |-> ApologyResponse,
                                      status |-> "error",
                                      source |-> "error-fallback"]]

\* C15, amended: the answer of a non-empty message is the remote one exactly
\* when a valid key is configured and the remote call succeeds; otherwise it
\* is the keyword fallback tagged 'fallback' with status 'success', unless
\* the handler itself fails outside the remote call, and then the answer is
\* HTTP 500, the apology tagged 'error-fallback' or the generic error; an
\* empty message is rejected and nothing is saved.
C15_SourceSelectionUnlessError == [][C15_FallbackUnlessError]_vars

\* with a valid key the remote call raised and the keyword answer of a
\* message that matches a phrase was returned and saved
C15_Witness ==
    /\ call.fn = "api_chat"
    /\ KeyValid(Strip(config.GOOGLE_API_KEY))
    /\ call.remote = "raises"
    /\ call.response.status = 200
    /\ call.response.body.source = "fallback"
    /\ call.response.body.response # DefaultResponse
    /\ Len(chatbot_conversations) \in {1, 5}

C20_OneRecordSameSource ==
    (ChatStep /\ Len(SentMessage) > 0) =>
        \/ chatbot_conversations' = chatbot_conversations
        \/ /\ Len(chatbot_conversations') = Len(chatbot_conversations) + 1
           /\ SubSeq(chatbot_conversations', 1, Len(chatbot_conversations))
                  = chatbot_conversations
           /\ chatbot_conversations'[Len(chatbot_conversations')].source
                  = DictGet(call'.response.body, "source", "")

\* C20: a chat request with a non-empty message saves at most one chat
\* record, on the remote, the fallback and the error path alike, and the
\* source stored with the record is the source returned in the response.
C20_SavedSourceMatches == [][C20_OneRecordSameSource]_vars

(***************************************************************************)
(* Properties of the stored catalog                                        *)
(***************************************************************************)
\* the stored rows of a name
StoredAs(table, name) == {i \in DOMAIN table : table[i].name = name}

TableNames(table) == {table[i].name : i \in DOMAIN table}

\* the row of the product last saved, field by field as save_product binds it
C17_UniqueAndLastSaved ==
    /\ \A i, j \in DOMAIN products :
           (products[i].name = products[j].name) => (i = j)
    /\ (call.fn = "save_product" /\ call.ok) =>
           \E i \in DOMAIN products :
               /\ StoredAs(products, call.product_obj.name) = {i}
               /\ products[i] = ProductRow(call.product_obj)

\* a stored product changes only in a save_product of its name that
\* succeeded, appears only then or in a seeding of the empty table, and
\* never disappears
C17_ChangedOnlyBySave ==
    /\ \A name \in TableNames(products) :
           /\ name \in TableNames(products')
           /\ \A i \in StoredAs(products, name), j \in StoredAs(products', name) :
                  (products'[j] # products[i]) =>
                      /\ call'.fn = "save_product"
                      /\ call'.ok
                      /\ call'.product_obj.name = name
    /\ \A name \in TableNames(products') \ TableNames(products) :
           \/ /\ call'.fn = "save_product"
              /\ call'.ok
              /\ call'.product_obj.name = name
           \/ /\ call'.fn = "seed_products_from_json"
              /\ Len(products) = 0
              /\ \E k \in DOMAIN products_data : products_data[k].name = name
    /\ (call'.fn = "seed_products_from_json" /\ Len(products) > 0) =>
           (products' = products)

\* C17: the products table never holds two rows of one name; after a
\* save_product that succeeded the one row of its name holds the values of
\* that call, and it keeps them until the next such call for the name: no
\* other call changes or removes a stored product, and seeding inserts only
\* into the empty table.
C17_NamesUnique == [](C17_UniqueAndLastSaved) /\ [][C17_ChangedOnlyBySave]_vars

\* a stored product was overwritten by a save_product with other values
C17_Witness ==
    /\ call.fn = "save_product"
    /\ call.ok
    /\ call.product_obj.name = "Milk 1L"
    /\ Len(products) >= 5
    /\ started = 2

\* v is a value, not None
HasValue(record, field) ==
    /\ field \in DOMAIN record
    /\ ~IsNone(record[field])

\* C18: a product of the list load_products serves is resolved by predict
\* through the known-product path, with the category, price and unit the
\* list shows for it.
C18_ListedResolved ==
    (call.fn = "predict_listed") =>
        /\ FindProduct(products_data, call.listed.name, 1) > 0
        /\ HasValue(call.listed, "category") =>
               (call.result.category = call.listed.category)
        /\ HasValue(call.listed, "current_price") =>
               (call.result.price = call.listed.current_price)
        /\ HasValue(call.listed, "unit") =>
               (call.result.unit = call.listed.unit)

(***************************************************************************)
(* Properties of the session                                               *)
(***************************************************************************)
Authenticated(sess) == "user_id" \in DOMAIN sess

PageRequests == {"index", "analytics", "settings"}

\* one request, judged by the session it arrived with
C19_Request ==
    /\ (~Authenticated(session) /\ call'.fn \in PageRequests) =>
           /\ call'.response = RedirectToLogin
           /\ user_activity' = user_activity
           /\ session' = session
    /\ (~Authenticated(session) /\ call'.fn = "api_update_profile") =>
           /\ call'.response = NotAuthenticated
           /\ user_activity' = user_activity
           /\ session' = session
    /\ (call'.fn \in PageRequests \cup {"api_update_profile"}
            /\ call'.response.status \in {200, 400}) =>
           Authenticated(session)
    /\ (call'.fn = "api_login" /\ call'.response.status = 200) =>
           /\ ~IsNone(call'.data)
           /\ {"email", "password"} \subseteq DOMAIN call'.data
           /\ Len(Strip(call'.data.email)) > 0
           /\ Len(Strip(call'.data.password)) > 0
    /\ (~Authenticated(session) /\ Authenticated(session')) =>
           /\ call'.fn = "api_login"
           /\ call'.response.status = 200
    /\ (call'.fn = "logout") => ~Authenticated(session')

\* C19: the session starts without a user_id, gains one only in a login
\* whose email and password are non-empty after trimming, and loses it in
\* every logout; a request for '/', '/analytics' or '/settings' that arrives
\* without a user_id is redirected to the login page, an update-profile
\* without one is answered 401, and neither writes an activity log entry.
C19_ServedOnlyLoggedIn == (~Authenticated(session)) /\ [][C19_Request]_vars

\* a page was visited and logged, and after the logout the dashboard
\* redirects
C19_Witness ==
    /\ call.fn = "index"
    /\ call.response = RedirectToLogin
    /\ ~Authenticated(session)
    /\ Len(user_activity) >= 1

====
